---- MODULE Spec2Model ----
(***************************************************************************)
(* Last Man Standing (prem-picker): the pick validator, the gameweek       *)
(* results processor (POST /process-results and the cron's                 *)
(* processGameResults) and the results poller, over the relational store.  *)
(*                                                                         *)
(* Tables are functions from a row key to a row; a key outside DOMAIN is   *)
(* an absent row.  SQL NULL is 0 for numbers, "null" for text, <<>> for a  *)
(* row reference.                                                          *)
(***************************************************************************)
EXTENDS Integers, FiniteSets, Sequences, TLC

\* ---------------------------------------------------------------- bounds
MaxPlayers == 3
MaxRound == 2

Users == 1..MaxPlayers
Rounds == 1..MaxRound
Games == {1}

\* ------------------------------------------------------------ the catalog
\* pl_teams of the season, and the season's schedule: one fixture per round,
\* the teams rotating, so that every round one team has no fixture.
Teams == <<"ARS", "CHE", "LIV">>
TeamIds == {Teams[i] : i \in 1..Len(Teams)}
HomeOf(gw) == Teams[((gw - 1) % Len(Teams)) + 1]
AwayOf(gw) == Teams[(gw % Len(Teams)) + 1]

\* The scorelines the match feed reports for a finished match.
FeedScores == {<<1, 0>>, <<0, 1>>, <<1, 1>>}

NoRow == <<>>
PlayerId(g, u) == <<g, u>>
PickId(g, u, gw) == <<g, u, gw>>

VARIABLES
  pl_fixtures,   \* fixture id -> [gameweek, home_team_id, away_team_id, match_date, home_score, away_score, status]
  games,         \* game_id -> [status, start_gameweek, winner_player_id, is_draw]
  game_players,  \* <<game_id, user>> -> [status, eliminated_gameweek, eliminated_pick_id]
  picks,         \* <<game_id, user, gameweek>> -> [pl_team_id, result]
  app_settings,  \* [current_gameweek, gameweek_override, deadline_override]
  now,           \* the clock match_date is compared with
  cron,          \* the poller's loop: [gw, currentGw], gw = 0 when idle
  tx             \* the open transactions of concurrent round processing

vars == <<pl_fixtures, games, game_players, picks, app_settings, now, cron, tx>>

\* The stored state the handlers read and write, as one value.
DB == [fixtures |-> pl_fixtures, games |-> games, players |-> game_players,
       picks |-> picks, settings |-> app_settings]

SetDB(d) ==
  /\ pl_fixtures' = d.fixtures
  /\ games' = d.games
  /\ game_players' = d.players
  /\ picks' = d.picks
  /\ app_settings' = d.settings

Max(a, b) == IF a >= b THEN a ELSE b

\* -------------------------------------------------------------- settings
getCurrentGameweek(db) ==
  IF db.settings.current_gameweek = 0 THEN 1 ELSE db.settings.current_gameweek

\* MIN(gameweek) over the unfinished fixtures, else MAX(gameweek) when the
\* season has fixtures, else null (0).
autoDetectGameweek(db) ==
  LET unfinished == {db.fixtures[f].gameweek : f \in {x \in DOMAIN db.fixtures : db.fixtures[x].status # "finished"}}
      all == {db.fixtures[f].gameweek : f \in DOMAIN db.fixtures}
  IN IF unfinished # {} THEN CHOOSE m \in unfinished : \A o \in unfinished : m <= o
     ELSE IF all # {} THEN CHOOSE m \in all : \A o \in all : m >= o
     ELSE 0

updateSetting(db, key, value) ==
  [db EXCEPT !.settings = [db.settings EXCEPT ![key] = value]]

\* Variant: only scheduled fixtures hold a gameweek back.
UnfinishedCountScheduledOnly(db, gw) ==
  Cardinality({f \in DOMAIN db.fixtures :
                 db.fixtures[f].gameweek = gw /\ db.fixtures[f].status = "scheduled"})

\* ------------------------------------------------- results of a gameweek
UnfinishedCount(db, gw) ==
  Cardinality({f \in DOMAIN db.fixtures :
                 db.fixtures[f].gameweek = gw /\ db.fixtures[f].status # "finished"})

FinishedFixtures(db, gw) ==
  {db.fixtures[f] : f \in {x \in DOMAIN db.fixtures :
                 db.fixtures[x].gameweek = gw /\ db.fixtures[x].status = "finished"}}

\* One fixture's entry of the teamResults map for one of its two sides.
FixtureResult(f, team) ==
  IF f.home_score > f.away_score THEN (IF team = f.home_team_id THEN "win" ELSE "loss")
  ELSE IF f.home_score < f.away_score THEN (IF team = f.home_team_id THEN "loss" ELSE "win")
  ELSE "draw"

\* teamResults: team id -> win | loss | draw, from the finished fixtures.
TeamResults(db, gw) ==
  LET fs == FinishedFixtures(db, gw)
      sides == {f.home_team_id : f \in fs} \cup {f.away_team_id : f \in fs}
  IN [t \in sides |->
        FixtureResult(CHOOSE f \in fs : t \in {f.home_team_id, f.away_team_id}, t)]

\* teamResults[pick.pl_team_id] || 'loss'
PickResult(tr, team) == IF team \in DOMAIN tr THEN tr[team] ELSE "loss"

\* ------------------------------------------- the statements of one pass
RoundPicks(db, g, gw) == {k \in DOMAIN db.picks : k[1] = g /\ k[3] = gw}

AlreadyProcessedCount(db, g, gw) ==
  Cardinality({k \in RoundPicks(db, g, gw) : db.picks[k].result # "null"})

\* UPDATE picks SET result = $1 WHERE pick_id = $2
UpdatePickResult(db, k, result) ==
  [db EXCEPT !.picks = [db.picks EXCEPT ![k] = [@ EXCEPT !.result = result]]]

AlivePlayers(db, g) ==
  {p \in DOMAIN db.players : p[1] = g /\ db.players[p].status = "alive"}

\* Variant: only a lost pick eliminates, a drawn one does not.
EliminatedByPickOnLoss(db, g, gw, tr) ==
  {[playerId |-> PlayerId(k[1], k[2]), pickId |-> k] :
     k \in {x \in RoundPicks(db, g, gw) : PickResult(tr, db.picks[x].pl_team_id) = "loss"}}

\* The entries pushed on `eliminated` by the loop over the round's picks.
EliminatedByPick(db, g, gw, tr) ==
  {[playerId |-> PlayerId(k[1], k[2]), pickId |-> k] :
     k \in {x \in RoundPicks(db, g, gw) : PickResult(tr, db.picks[x].pl_team_id) # "win"}}

\* The entries pushed for the alive players who did not pick.
EliminatedNoPick(db, g, gw) ==
  LET playersWhoPicked == {PlayerId(k[1], k[2]) : k \in RoundPicks(db, g, gw)}
  IN {[playerId |-> p, pickId |-> NoRow] : p \in AlivePlayers(db, g) \ playersWhoPicked}

\* Variant: the elimination does not record the pick.
MarkEliminatedWithoutPick(db, e, gw) ==
  IF e.playerId \in DOMAIN db.players /\ db.players[e.playerId].status = "alive"
  THEN [db EXCEPT !.players = [db.players EXCEPT ![e.playerId] =
          [@ EXCEPT !.status = "eliminated", !.eliminated_gameweek = gw]]]
  ELSE db

\* UPDATE game_players SET status = 'eliminated', eliminated_gameweek = $1,
\*   eliminated_pick_id = $2 WHERE player_id = $3 AND status = 'alive'
MarkEliminated(db, e, gw) ==
  IF e.playerId \in DOMAIN db.players /\ db.players[e.playerId].status = "alive"
  THEN [db EXCEPT !.players = [db.players EXCEPT ![e.playerId] =
          [@ EXCEPT !.status = "eliminated", !.eliminated_gameweek = gw,
                    !.eliminated_pick_id = e.pickId]]]
  ELSE db

\* UPDATE game_players SET status = $s WHERE player_id = $1
SetPlayerStatus(db, p, s) ==
  IF p \in DOMAIN db.players
  THEN [db EXCEPT !.players = [db.players EXCEPT ![p] = [@ EXCEPT !.status = s]]]
  ELSE db

\* UPDATE games SET status = 'completed', winner_player_id = $1 WHERE game_id = $2
CompleteWithWinner(db, g, p) ==
  [db EXCEPT !.games = [db.games EXCEPT ![g] =
     [@ EXCEPT !.status = "completed", !.winner_player_id = p]]]

\* UPDATE games SET status = 'completed', is_draw = TRUE WHERE game_id = $1
CompleteAsDraw(db, g) ==
  [db EXCEPT !.games = [db.games EXCEPT ![g] =
     [@ EXCEPT !.status = "completed", !.is_draw = TRUE]]]

\* for (const pick of picks.rows) { UPDATE picks SET result ... }
RECURSIVE UpdatePickResults(_, _, _)
UpdatePickResults(db, ks, tr) ==
  IF ks = {} THEN db
  ELSE LET k == CHOOSE x \in ks : TRUE
       IN UpdatePickResults(UpdatePickResult(db, k, PickResult(tr, db.picks[k].pl_team_id)),
                            ks \ {k}, tr)

\* for (const e of eliminated) { UPDATE game_players SET status = 'eliminated' ... }
RECURSIVE MarkAllEliminated(_, _, _)
MarkAllEliminated(db, es, gw) ==
  IF es = {} THEN db
  ELSE LET e == CHOOSE x \in es : TRUE
       IN MarkAllEliminated(MarkEliminated(db, e, gw), es \ {e}, gw)

\* for (const e of eliminated) { UPDATE game_players SET status = 'drawn' ... }
RECURSIVE SetAllDrawn(_, _)
SetAllDrawn(db, es) ==
  IF es = {} THEN db
  ELSE LET e == CHOOSE x \in es : TRUE
       IN SetAllDrawn(SetPlayerStatus(db, e.playerId, "drawn"), es \ {e})

\* The winner/draw check that ends a pass.
ResolveGame(db, g, eliminated) ==
  LET alive == AlivePlayers(db, g)
  IN IF Cardinality(alive) = 1
     THEN LET w == CHOOSE p \in alive : TRUE
          IN CompleteWithWinner(SetPlayerStatus(db, w, "winner"), g, w)
     ELSE IF Cardinality(alive) = 0
     THEN CompleteAsDraw(SetAllDrawn(db, eliminated), g)
     ELSE db

\* Steps 4 to 7 of POST /process-results, which are the body of the cron's
\* per-game transaction as well: pick results, the eliminated list, the
\* eliminations, the winner/draw check.
RoundPass(db, g, gw, tr) ==
  LET db1 == UpdatePickResults(db, RoundPicks(db, g, gw), tr)
      eliminated == EliminatedByPick(db, g, gw, tr) \cup EliminatedNoPick(db1, g, gw)
      db2 == MarkAllEliminated(db1, eliminated, gw)
  IN [db |-> ResolveGame(db2, g, eliminated),
      eliminated |-> eliminated,
      remaining |-> Cardinality(AlivePlayers(db2, g))]

\* Variant: the route without its check of the game's status.
ProcessResultsRouteAnyStatus(db, g, gw) ==
  IF gw = 0 THEN [db |-> db, res |-> "gameweek is required"]
  ELSE IF g \notin DOMAIN db.games THEN [db |-> db, res |-> "Game not found"]
  ELSE IF UnfinishedCount(db, gw) > 0
       THEN [db |-> db, res |-> "fixtures still not finished"]
  ELSE [db |-> RoundPass(db, g, gw, TeamResults(db, gw)).db, res |-> "processed"]

\* POST /api/games/:id/process-results
ProcessResultsRoute(db, g, gw) ==
  IF gw = 0 THEN [db |-> db, res |-> "gameweek is required"]
  ELSE IF g \notin DOMAIN db.games THEN [db |-> db, res |-> "Game not found"]
  ELSE IF db.games[g].status # "active" THEN [db |-> db, res |-> "Game is not active"]
  ELSE IF UnfinishedCount(db, gw) > 0
       THEN [db |-> db, res |-> "fixtures still not finished"]
  ELSE [db |-> RoundPass(db, g, gw, TeamResults(db, gw)).db, res |-> "processed"]

\* One iteration of the cron's loop over the active games.
ProcessGame(db, g, gw, tr) ==
  IF AlreadyProcessedCount(db, g, gw) > 0
  THEN [db |-> db, res |-> "already processed"]
  ELSE [db |-> RoundPass(db, g, gw, tr).db, res |-> "processed"]

\* SELECT ... FROM games WHERE status = 'active' AND start_gameweek <= $1
ActiveGames(db, gw) ==
  {g \in DOMAIN db.games : db.games[g].status = "active" /\ db.games[g].start_gameweek <= gw}

RECURSIVE ProcessGames(_, _, _, _)
ProcessGames(db, gs, gw, tr) ==
  IF gs = {} THEN db
  ELSE LET g == CHOOSE x \in gs : \A y \in gs : x <= y
       IN ProcessGames(ProcessGame(db, g, gw, tr).db, gs \ {g}, gw, tr)

\* processGameResults(gameweek) of the cron
processGameResults(db, gw) ==
  IF UnfinishedCount(db, gw) > 0
  THEN [db |-> db, processed |-> FALSE]
  ELSE [db |-> ProcessGames(db, ActiveGames(db, gw), gw, TeamResults(db, gw)),
        processed |-> TRUE]

\* ------------------------------------------------------- the pick validator
getGameweekOverride(db) == db.settings.gameweek_override
isDeadlineOverridden(db) == db.settings.deadline_override

\* Variant: the gameweek is the detected one, whatever the override.
PickGameweekDetected(db) ==
  IF autoDetectGameweek(db) # 0 THEN autoDetectGameweek(db) ELSE getCurrentGameweek(db)

\* The gameweek POST /picks writes to.
PickGameweek(db) ==
  IF getGameweekOverride(db) # 0 THEN getGameweekOverride(db)
  ELSE IF autoDetectGameweek(db) # 0 THEN autoDetectGameweek(db)
  ELSE getCurrentGameweek(db)

\* Variant: no gameweek has a deadline.
DeadlineNone(db, gw) == 0

\* SELECT MIN(match_date) ... WHERE gameweek = $1 AND match_date IS NOT NULL (0: none)
Deadline(db, gw) ==
  LET ds == {db.fixtures[f].match_date : f \in {x \in DOMAIN db.fixtures :
                 db.fixtures[x].gameweek = gw /\ db.fixtures[x].match_date # 0}}
  IN IF ds = {} THEN 0 ELSE CHOOSE m \in ds : \A o \in ds : m <= o

TeamHasFixture(db, team, gw) ==
  \E f \in DOMAIN db.fixtures :
     /\ db.fixtures[f].gameweek = gw
     /\ team \in {db.fixtures[f].home_team_id, db.fixtures[f].away_team_id}

\* Variant: no team counts as used.
UsedTeamIdsNone(db, g, u) == {}

UsedTeamIds(db, g, u) ==
  {db.picks[k].pl_team_id : k \in {x \in DOMAIN db.picks : x[1] = g /\ x[2] = u}}

UsedExcludingCurrent(db, g, u, gw) ==
  IF PickId(g, u, gw) \in DOMAIN db.picks
  THEN UsedTeamIds(db, g, u) \ {db.picks[PickId(g, u, gw)].pl_team_id}
  ELSE UsedTeamIds(db, g, u)

\* Variant: on conflict the stored pick is kept.
UpsertPickIfAbsent(db, g, u, gw, team) ==
  IF PickId(g, u, gw) \in DOMAIN db.picks THEN db
  ELSE [db EXCEPT !.picks =
          (PickId(g, u, gw) :> [pl_team_id |-> team, result |-> "null"]) @@ db.picks]

\* Variant: on conflict the team is set on every pick of the player.
UpsertPickEveryRound(db, g, u, gw, team) ==
  IF PickId(g, u, gw) \in DOMAIN db.picks
  THEN [db EXCEPT !.picks = [k \in DOMAIN db.picks |->
          IF k[1] = g /\ k[2] = u THEN [db.picks[k] EXCEPT !.pl_team_id = team]
          ELSE db.picks[k]]]
  ELSE [db EXCEPT !.picks =
          (PickId(g, u, gw) :> [pl_team_id |-> team, result |-> "null"]) @@ db.picks]

\* INSERT INTO picks ... ON CONFLICT (game_id, game_player_id, gameweek)
\*   DO UPDATE SET pl_team_id = EXCLUDED.pl_team_id
UpsertPick(db, g, u, gw, team) ==
  IF PickId(g, u, gw) \in DOMAIN db.picks
  THEN [db EXCEPT !.picks = [db.picks EXCEPT ![PickId(g, u, gw)] =
          [@ EXCEPT !.pl_team_id = team]]]
  ELSE [db EXCEPT !.picks =
          (PickId(g, u, gw) :> [pl_team_id |-> team, result |-> "null"]) @@ db.picks]

\* Variant: the pick is written before the used-team check.
SubmitPickRouteWritesFirst(db, g, u, team, t) ==
  LET gw == PickGameweek(db)
      reject(why) == [db |-> db, res |-> why]
  IN IF team = "" THEN reject("plTeamId is required")
     ELSE IF g \notin DOMAIN db.games THEN reject("Game not found")
     ELSE IF db.games[g].status # "active" THEN reject("Game is not active")
     ELSE IF gw < db.games[g].start_gameweek THEN reject("Game hasn't started yet")
     ELSE IF PlayerId(g, u) \notin DOMAIN db.players THEN reject("You are not in this game")
     ELSE IF db.players[PlayerId(g, u)].status # "alive"
          THEN reject("You have been eliminated from this game")
     ELSE IF ~isDeadlineOverridden(db) /\ Deadline(db, gw) # 0 /\ Deadline(db, gw) < t
          THEN reject("Deadline has passed for this gameweek")
     ELSE IF ~TeamHasFixture(db, team, gw)
          THEN reject("This team does not have a fixture this gameweek")
     ELSE IF /\ team \in UsedExcludingCurrent(db, g, u, gw)
             /\ Cardinality(UsedExcludingCurrent(db, g, u, gw)) < Cardinality(TeamIds)
          THEN [db |-> UpsertPick(db, g, u, gw, team), res |-> "You have already used this team"]
     ELSE [db |-> UpsertPick(db, g, u, gw, team), res |-> "Pick submitted"]

\* Variant: the deadline is checked before the player's status.
SubmitPickRouteDeadlineFirst(db, g, u, team, t) ==
  LET gw == PickGameweek(db)
      reject(why) == [db |-> db, res |-> why]
  IN IF team = "" THEN reject("plTeamId is required")
     ELSE IF g \notin DOMAIN db.games THEN reject("Game not found")
     ELSE IF db.games[g].status # "active" THEN reject("Game is not active")
     ELSE IF gw < db.games[g].start_gameweek THEN reject("Game hasn't started yet")
     ELSE IF PlayerId(g, u) \notin DOMAIN db.players THEN reject("You are not in this game")
     ELSE IF ~isDeadlineOverridden(db) /\ Deadline(db, gw) # 0 /\ Deadline(db, gw) < t
          THEN reject("Deadline has passed for this gameweek")
     ELSE IF db.players[PlayerId(g, u)].status # "alive"
          THEN reject("You have been eliminated from this game")
     ELSE IF ~TeamHasFixture(db, team, gw)
          THEN reject("This team does not have a fixture this gameweek")
     ELSE IF /\ team \in UsedExcludingCurrent(db, g, u, gw)
             /\ Cardinality(UsedExcludingCurrent(db, g, u, gw)) < Cardinality(TeamIds)
          THEN reject("You have already used this team")
     ELSE [db |-> UpsertPick(db, g, u, gw, team), res |-> "Pick submitted"]

\* POST /api/games/:id/picks by user u at time t
SubmitPickRoute(db, g, u, team, t) ==
  LET gw == PickGameweek(db)
      reject(why) == [db |-> db, res |-> why]
  IN IF team = "" THEN reject("plTeamId is required")
     ELSE IF g \notin DOMAIN db.games THEN reject("Game not found")
     ELSE IF db.games[g].status # "active" THEN reject("Game is not active")
     ELSE IF gw < db.games[g].start_gameweek THEN reject("Game hasn't started yet")
     ELSE IF PlayerId(g, u) \notin DOMAIN db.players THEN reject("You are not in this game")
     ELSE IF db.players[PlayerId(g, u)].status # "alive"
          THEN reject("You have been eliminated from this game")
     ELSE IF ~isDeadlineOverridden(db) /\ Deadline(db, gw) # 0 /\ Deadline(db, gw) < t
          THEN reject("Deadline has passed for this gameweek")
     ELSE IF ~TeamHasFixture(db, team, gw)
          THEN reject("This team does not have a fixture this gameweek")
     ELSE IF /\ team \in UsedExcludingCurrent(db, g, u, gw)
             /\ Cardinality(UsedExcludingCurrent(db, g, u, gw)) < Cardinality(TeamIds)
          THEN reject("You have already used this team")
     ELSE [db |-> UpsertPick(db, g, u, gw, team), res |-> "Pick submitted"]

\* ------------------------------------------------------ the contest registry
\* POST /api/games: the game row, and its creator as the first player.
NewPlayer == [status |-> "alive", eliminated_gameweek |-> 0, eliminated_pick_id |-> NoRow]

CreateGameRoute(db, g, u, startGameweek) ==
  [db EXCEPT
     !.games = (g :> [status |-> "open",
                      start_gameweek |-> IF startGameweek = 0 THEN 1 ELSE startGameweek,
                      winner_player_id |-> NoRow, is_draw |-> FALSE]) @@ db.games,
     !.players = (PlayerId(g, u) :> NewPlayer) @@ db.players]

\* POST /api/games/join with the invite code of game g
JoinGameRoute(db, g, u) ==
  IF g \notin DOMAIN db.games THEN [db |-> db, res |-> "Invalid invite code"]
  ELSE IF db.games[g].status # "open"
       THEN [db |-> db, res |-> "This game is no longer accepting players"]
  ELSE IF PlayerId(g, u) \in DOMAIN db.players
       THEN [db |-> db, res |-> "You are already in this game"]
  ELSE [db |-> [db EXCEPT !.players = (PlayerId(g, u) :> NewPlayer) @@ db.players],
        res |-> "Joined"]

\* Variant: a game starts with any number of players.
StartGameRouteAnyCount(db, g) ==
  IF g \notin DOMAIN db.games THEN [db |-> db, res |-> "Game not found"]
  ELSE IF db.games[g].status # "open" THEN [db |-> db, res |-> "Game is not in open status"]
  ELSE [db |-> [db EXCEPT !.games = [db.games EXCEPT ![g] = [@ EXCEPT !.status = "active"]]],
        res |-> "Game started!"]

\* POST /api/games/:id/start
StartGameRoute(db, g) ==
  IF g \notin DOMAIN db.games THEN [db |-> db, res |-> "Game not found"]
  ELSE IF db.games[g].status # "open" THEN [db |-> db, res |-> "Game is not in open status"]
  ELSE IF Cardinality({p \in DOMAIN db.players : p[1] = g}) < 2
       THEN [db |-> db, res |-> "Need at least 2 players to start a game"]
  ELSE [db |-> [db EXCEPT !.games = [db.games EXCEPT ![g] = [@ EXCEPT !.status = "active"]]],
        res |-> "Game started!"]

\* Variant: the fetch writes every match the feed reports as finished.
fetchLatestResultsEveryMatch(db, feed) ==
  LET fx == [f \in DOMAIN db.fixtures |->
               IF f \in DOMAIN feed
               THEN [db.fixtures[f] EXCEPT !.home_score = feed[f][1],
                                           !.away_score = feed[f][2],
                                           !.status = "finished"]
               ELSE db.fixtures[f]]
      db1 == [db EXCEPT !.fixtures = fx]
  IN IF autoDetectGameweek(db1) # 0
     THEN updateSetting(db1, "current_gameweek", autoDetectGameweek(db1))
     ELSE db1

\* ------------------------------------------------------------ the poller
\* UPDATE pl_fixtures SET home_score, away_score, status = 'finished'
\*   WHERE api_match_id = $3 AND status != 'finished', for every FINISHED match
\* of the feed; then current_gameweek is set to the detected gameweek.
fetchLatestResults(db, feed) ==
  LET fx == [f \in DOMAIN db.fixtures |->
               IF f \in DOMAIN feed /\ db.fixtures[f].status # "finished"
               THEN [db.fixtures[f] EXCEPT !.home_score = feed[f][1],
                                           !.away_score = feed[f][2],
                                           !.status = "finished"]
               ELSE db.fixtures[f]]
      db1 == [db EXCEPT !.fixtures = fx]
  IN IF autoDetectGameweek(db1) # 0
     THEN updateSetting(db1, "current_gameweek", autoDetectGameweek(db1))
     ELSE db1

\* What the feed may report as FINISHED: matches that have kicked off.
Feeds(t) ==
  UNION {[S -> FeedScores] :
           S \in SUBSET {f \in DOMAIN pl_fixtures : pl_fixtures[f].match_date < t}}

\* POST /api/fixtures/import: every match of the feed is upserted with the
\* feed's status and full-time score, then current_gameweek is set to the
\* detected gameweek.
importFixtures(db, feed) ==
  LET fx == [f \in DOMAIN db.fixtures |->
               [db.fixtures[f] EXCEPT !.status = feed[f].status,
                                      !.home_score = feed[f].score[1],
                                      !.away_score = feed[f].score[2]]]
      db1 == [db EXCEPT !.fixtures = fx]
  IN IF autoDetectGameweek(db1) # 0
     THEN updateSetting(db1, "current_gameweek", autoDetectGameweek(db1))
     ELSE db1

\* What the feed may report for one match at time t: a finished match stays
\* finished with its score; before kick-off a match is scheduled or
\* postponed; after it, it may also be in play or finished.
NoScore == <<-1, -1>>
FeedMatch(f, t) ==
  IF pl_fixtures[f].status = "finished"
  THEN {[status |-> "finished",
         score |-> <<pl_fixtures[f].home_score, pl_fixtures[f].away_score>>]}
  ELSE {[status |-> st, score |-> NoScore] : st \in {"scheduled", "postponed"}}
       \cup (IF pl_fixtures[f].match_date < t
             THEN {[status |-> "in_play", score |-> NoScore]}
                  \cup {[status |-> "finished", score |-> sc] : sc \in FeedScores}
             ELSE {})

ImportFeeds(t) ==
  {feed \in [DOMAIN pl_fixtures -> UNION {FeedMatch(f, t) : f \in DOMAIN pl_fixtures}] :
     \A f \in DOMAIN pl_fixtures : feed[f] \in FeedMatch(f, t)}

CronIdle == [gw |-> 0, currentGw |-> 0]

\* ---------------------------------------------------------------- actions
Init ==
  /\ pl_fixtures = [f \in Rounds |->
       [gameweek |-> f, home_team_id |-> HomeOf(f), away_team_id |-> AwayOf(f),
        match_date |-> f, home_score |-> -1, away_score |-> -1, status |-> "scheduled"]]
  /\ games = <<>>
  /\ game_players = <<>>
  /\ picks = <<>>
  /\ app_settings = [current_gameweek |-> 1, gameweek_override |-> 0,
                     deadline_override |-> FALSE]
  /\ now = 1
  /\ cron = CronIdle
  /\ tx = <<>>

CreateGame(u, startGameweek) ==
  /\ \E g \in Games \ DOMAIN games :
        /\ \A h \in Games \ DOMAIN games : g <= h
        /\ SetDB(CreateGameRoute(DB, g, u, startGameweek))
  /\ UNCHANGED <<now, cron, tx>>

JoinGame(g, u) ==
  /\ SetDB(JoinGameRoute(DB, g, u).db)
  /\ UNCHANGED <<now, cron, tx>>

StartGame(g) ==
  /\ SetDB(StartGameRoute(DB, g).db)
  /\ UNCHANGED <<now, cron, tx>>

SubmitPick(g, u, team) ==
  /\ SetDB(SubmitPickRoute(DB, g, u, team, now).db)
  /\ UNCHANGED <<now, cron, tx>>

ProcessResults(g, gw) ==
  /\ SetDB(ProcessResultsRoute(DB, g, gw).db)
  /\ UNCHANGED <<now, cron, tx>>

ImportFixtures(feed) ==
  /\ SetDB(importFixtures(DB, feed))
  /\ UNCHANGED <<now, cron, tx>>

\* runResultsCheck up to its loop: the fetch, then the window's bounds.
CronFetch(feed) ==
  /\ cron.gw = 0
  /\ LET db1 == fetchLatestResults(DB, feed)
     IN /\ SetDB(db1)
        /\ cron' = [gw |-> Max(1, getCurrentGameweek(db1) - 2),
                    currentGw |-> getCurrentGameweek(db1)]
  /\ UNCHANGED <<now, tx>>

\* One iteration of runResultsCheck's loop: processGameResults(gw).
CronProcess ==
  /\ cron.gw # 0
  /\ SetDB(processGameResults(DB, cron.gw).db)
  /\ cron' = IF cron.gw < cron.currentGw THEN [cron EXCEPT !.gw = @ + 1] ELSE CronIdle
  /\ UNCHANGED <<now, tx>>

\* Time passes.
Tick ==
  /\ now <= MaxRound
  /\ now' = now + 1
  /\ UNCHANGED <<pl_fixtures, games, game_players, picks, app_settings, cron, tx>>

Next ==
  \/ \E u \in Users, sg \in Rounds : CreateGame(u, sg)
  \/ \E g \in Games, u \in Users : JoinGame(g, u)
  \/ \E g \in Games : StartGame(g)
  \/ \E g \in Games, u \in Users, team \in TeamIds : SubmitPick(g, u, team)
  \/ \E g \in Games, gw \in 1..(MaxRound + 1) : ProcessResults(g, gw)
  \/ \E feed \in ImportFeeds(now) : ImportFixtures(feed)
  \/ \E feed \in Feeds(now) : CronFetch(feed)
  \/ CronProcess
  \/ Tick

Spec == Init /\ [][Next]_vars

\* ------------------------------------- concurrent round processing
\* Two invocations for the same game, each for its gameweek gw and on its
\* own pooled connection, a step per statement.  The store is PostgreSQL at its default
\* isolation (READ COMMITTED): a statement reads what is committed plus its
\* own transaction's writes; an UPDATE that matches a row another open
\* transaction has written waits for that transaction to end, then applies
\* its WHERE to the row as committed.  The stored variables are the
\* committed state; tx.procs[p].w holds p's uncommitted rows, which are the
\* rows p has locked.
Procs == {1, 2}
Kinds == {"admin", "cron"}
RaceGame == CHOOSE g \in Games : \A h \in Games : g <= h
RaceGw == CHOOSE gw \in Rounds : \A o \in Rounds : gw <= o

NoWrites == [picks |-> <<>>, players |-> <<>>, games |-> <<>>]

Overlay(db, w) ==
  [db EXCEPT !.picks = w.picks @@ db.picks,
             !.players = w.players @@ db.players,
             !.games = w.games @@ db.games]

TxView(p) == Overlay(DB, tx.procs[p].w)

LockedByOther(p, table, k) ==
  \E q \in Procs \ {p} : k \in DOMAIN tx.procs[q].w[table]

\* p's write buffer after a statement that turned p's view into `after`
\* by updating row k of `table`.
Written(p, table, k, after) ==
  [tx.procs[p].w EXCEPT ![table] = (k :> after[table][k]) @@ @]

TxSet(p, rec) == tx' = [tx EXCEPT !.procs[p] = rec]

FirstPick(ks) == CHOOSE k \in ks : \A o \in ks : k[2] <= o[2]
FirstEntry(es) == CHOOSE e \in es : \A o \in es : e.playerId[2] <= o.playerId[2]

TxIdle(kind) ==
  [kind |-> kind, gw |-> RaceGw, pc |-> "start", tr |-> <<>>, todo |-> {}, eliminated |-> {},
   remaining |-> 0, winner |-> NoRow, w |-> NoWrites, res |-> "none"]

TxEnd(t, res) == [t EXCEPT !.pc = "done", !.w = NoWrites, !.todo = {}, !.res = res]

\* processGameResults before its loop: the fixtures check, teamResults and
\* the list of active games (read outside any transaction).  The admin route
\* has nothing before its BEGIN.
TxStart(p) ==
  LET t == tx.procs[p] IN
  /\ t.pc = "start"
  /\ IF t.kind = "admin" THEN TxSet(p, [t EXCEPT !.pc = "begin"])
     ELSE IF UnfinishedCount(DB, t.gw) > 0 THEN TxSet(p, TxEnd(t, "not finished"))
     ELSE IF RaceGame \notin ActiveGames(DB, t.gw) THEN TxSet(p, TxEnd(t, "not active"))
     ELSE TxSet(p, [t EXCEPT !.pc = "begin", !.tr = TeamResults(DB, t.gw)])
  /\ UNCHANGED <<pl_fixtures, games, game_players, picks, app_settings, now, cron>>

\* BEGIN and the checks that follow it: the cron's "already processed"
\* count; the route's game, status and fixtures checks and its teamResults.
TxBegin(p) ==
  LET t == tx.procs[p]
      v == TxView(p)
  IN
  /\ t.pc = "begin"
  /\ IF t.kind = "cron"
     THEN IF AlreadyProcessedCount(v, RaceGame, t.gw) > 0
          THEN TxSet(p, TxEnd(t, "already processed"))
          ELSE TxSet(p, [t EXCEPT !.pc = "select_picks"])
     ELSE IF ProcessResultsRoute(v, RaceGame, t.gw).res # "processed"
          THEN TxSet(p, TxEnd(t, ProcessResultsRoute(v, RaceGame, t.gw).res))
          ELSE TxSet(p, [t EXCEPT !.pc = "select_picks", !.tr = TeamResults(v, t.gw)])
  /\ UNCHANGED <<pl_fixtures, games, game_players, picks, app_settings, now, cron>>

\* SELECT p.pick_id, p.game_player_id, p.pl_team_id FROM picks ...
TxSelectPicks(p) ==
  LET t == tx.procs[p] IN
  /\ t.pc = "select_picks"
  /\ TxSet(p, [t EXCEPT !.pc = "update_picks", !.todo = RoundPicks(TxView(p), RaceGame, t.gw)])
  /\ UNCHANGED <<pl_fixtures, games, game_players, picks, app_settings, now, cron>>

\* One iteration of the loop over the picks: the UPDATE and the push.
TxUpdatePick(p) ==
  LET t == tx.procs[p]
      v == TxView(p)
  IN
  /\ t.pc = "update_picks"
  /\ IF t.todo = {}
     THEN TxSet(p, [t EXCEPT !.pc = "select_alive"])
     ELSE LET k == FirstPick(t.todo)
              result == PickResult(t.tr, v.picks[k].pl_team_id)
          IN /\ ~LockedByOther(p, "picks", k)
             /\ TxSet(p, [t EXCEPT
                  !.todo = @ \ {k},
                  !.w = Written(p, "picks", k, UpdatePickResult(v, k, result)),
                  !.eliminated = IF result # "win"
                                 THEN @ \cup {[playerId |-> PlayerId(k[1], k[2]), pickId |-> k]}
                                 ELSE @])
  /\ UNCHANGED <<pl_fixtures, games, game_players, picks, app_settings, now, cron>>

\* SELECT player_id FROM game_players WHERE status = 'alive', and the push
\* of those who did not pick.
TxSelectAlive(p) ==
  LET t == tx.procs[p]
      es == t.eliminated \cup EliminatedNoPick(TxView(p), RaceGame, t.gw)
  IN
  /\ t.pc = "select_alive"
  /\ TxSet(p, [t EXCEPT !.pc = "mark", !.eliminated = es, !.todo = es])
  /\ UNCHANGED <<pl_fixtures, games, game_players, picks, app_settings, now, cron>>

\* One iteration of the loop that marks the eliminated players.
TxMarkEliminated(p) ==
  LET t == tx.procs[p]
      v == TxView(p)
  IN
  /\ t.pc = "mark"
  /\ IF t.todo = {}
     THEN TxSet(p, [t EXCEPT !.pc = "count"])
     ELSE LET e == FirstEntry(t.todo)
              after == MarkEliminated(v, e, t.gw)
          IN IF after = v
             THEN TxSet(p, [t EXCEPT !.todo = @ \ {e}])
             ELSE /\ ~LockedByOther(p, "players", e.playerId)
                  /\ TxSet(p, [t EXCEPT !.todo = @ \ {e},
                                        !.w = Written(p, "players", e.playerId, after)])
  /\ UNCHANGED <<pl_fixtures, games, game_players, picks, app_settings, now, cron>>

\* SELECT COUNT(*) FROM game_players WHERE status = 'alive'
TxCountAlive(p) ==
  LET t == tx.procs[p]
      n == Cardinality(AlivePlayers(TxView(p), RaceGame))
  IN
  /\ t.pc = "count"
  /\ TxSet(p, [t EXCEPT !.remaining = n,
                        !.todo = IF n = 0 THEN t.eliminated ELSE {},
                        !.pc = IF n = 1 THEN "select_winner"
                               ELSE IF n = 0 THEN "draw" ELSE "commit"])
  /\ UNCHANGED <<pl_fixtures, games, game_players, picks, app_settings, now, cron>>

\* SELECT player_id ... WHERE status = 'alive'; rows[0] of an empty result
\* throws, and the catch rolls the transaction back.
TxSelectWinner(p) ==
  LET t == tx.procs[p]
      alive == AlivePlayers(TxView(p), RaceGame)
  IN
  /\ t.pc = "select_winner"
  /\ IF alive = {}
     THEN TxSet(p, TxEnd(t, "error"))
     ELSE TxSet(p, [t EXCEPT !.pc = "update_winner",
                             !.winner = CHOOSE x \in alive : \A o \in alive : x[2] <= o[2]])
  /\ UNCHANGED <<pl_fixtures, games, game_players, picks, app_settings, now, cron>>

\* UPDATE game_players SET status = 'winner' WHERE player_id = $1
TxUpdateWinner(p) ==
  LET t == tx.procs[p] IN
  /\ t.pc = "update_winner"
  /\ ~LockedByOther(p, "players", t.winner)
  /\ TxSet(p, [t EXCEPT !.pc = "complete_winner",
                        !.w = Written(p, "players", t.winner,
                                      SetPlayerStatus(TxView(p), t.winner, "winner"))])
  /\ UNCHANGED <<pl_fixtures, games, game_players, picks, app_settings, now, cron>>

\* UPDATE games SET status = 'completed', winner_player_id = $1
TxCompleteWinner(p) ==
  LET t == tx.procs[p] IN
  /\ t.pc = "complete_winner"
  /\ ~LockedByOther(p, "games", RaceGame)
  /\ TxSet(p, [t EXCEPT !.pc = "commit",
                        !.w = Written(p, "games", RaceGame,
                                      CompleteWithWinner(TxView(p), RaceGame, t.winner))])
  /\ UNCHANGED <<pl_fixtures, games, game_players, picks, app_settings, now, cron>>

\* One iteration of the loop that sets the eliminated players to drawn,
\* then UPDATE games SET status = 'completed', is_draw = TRUE.
TxDraw(p) ==
  LET t == tx.procs[p]
      v == TxView(p)
  IN
  /\ t.pc = "draw"
  /\ IF t.todo = {}
     THEN /\ ~LockedByOther(p, "games", RaceGame)
          /\ TxSet(p, [t EXCEPT !.pc = "commit",
                                !.w = Written(p, "games", RaceGame, CompleteAsDraw(v, RaceGame))])
     ELSE LET e == FirstEntry(t.todo)
          IN /\ ~LockedByOther(p, "players", e.playerId)
             /\ TxSet(p, [t EXCEPT !.todo = @ \ {e},
                                   !.w = Written(p, "players", e.playerId,
                                                 SetPlayerStatus(v, e.playerId, "drawn"))])
  /\ UNCHANGED <<pl_fixtures, games, game_players, picks, app_settings, now, cron>>

\* COMMIT
TxCommit(p) ==
  LET t == tx.procs[p] IN
  /\ t.pc = "commit"
  /\ SetDB(TxView(p))
  /\ TxSet(p, TxEnd(t, "processed"))
  /\ UNCHANGED <<now, cron>>

\* A state before the race: the game created, joined by n players and
\* started, the players' picks for the first gameweek submitted (a team, or
\* "" for no submission), then the gameweek's fixture fetched as finished.
InitialDB ==
  [fixtures |-> [f \in Rounds |->
       [gameweek |-> f, home_team_id |-> HomeOf(f), away_team_id |-> AwayOf(f),
        match_date |-> f, home_score |-> -1, away_score |-> -1, status |-> "scheduled"]],
   games |-> <<>>, players |-> <<>>, picks |-> <<>>,
   settings |-> [current_gameweek |-> 1, gameweek_override |-> 0,
                 deadline_override |-> FALSE]]

RECURSIVE Joined(_, _)
Joined(db, n) ==
  IF n <= 1 THEN db ELSE JoinGameRoute(Joined(db, n - 1), RaceGame, n).db

RECURSIVE Picked(_, _, _)
Picked(db, n, choice) ==
  IF n = 0 THEN db
  ELSE SubmitPickRoute(Picked(db, n - 1, choice), RaceGame, n, choice[n], 1).db

RaceSetup(n, choice, score) ==
  LET started == StartGameRoute(Joined(CreateGameRoute(InitialDB, RaceGame, 1, 1), n), RaceGame).db
  IN fetchLatestResults(Picked(started, n, choice), (RaceGw :> score))

InitRace ==
  /\ \E n \in 2..MaxPlayers :
       \E choice \in [1..n -> {"", HomeOf(RaceGw), AwayOf(RaceGw)}] :
         \E score \in FeedScores :
           LET db == RaceSetup(n, choice, score)
           IN /\ pl_fixtures = db.fixtures
              /\ games = db.games
              /\ game_players = db.players
              /\ picks = db.picks
              /\ app_settings = db.settings
              /\ \E ka \in Kinds, kb \in Kinds :
                   tx = [pre |-> db, procs |-> (1 :> TxIdle(ka)) @@ (2 :> TxIdle(kb))]
  /\ now = 2
  /\ cron = CronIdle

NextRace ==
  \E p \in Procs :
    \/ TxStart(p)
    \/ TxBegin(p)
    \/ TxSelectPicks(p)
    \/ TxUpdatePick(p)
    \/ TxSelectAlive(p)
    \/ TxMarkEliminated(p)
    \/ TxCountAlive(p)
    \/ TxSelectWinner(p)
    \/ TxUpdateWinner(p)
    \/ TxCompleteWinner(p)
    \/ TxDraw(p)
    \/ TxCommit(p)

SpecRace == InitRace /\ [][NextRace]_vars

\* ------------------------------------- a failing statement in a pass
\* Variant: a failed pass keeps what it has written so far.
TxFailKeepsWrites(p) ==
  LET t == tx.procs[p] IN
  /\ t.pc \notin {"start", "done"}
  /\ SetDB(TxView(p))
  /\ TxSet(p, TxEnd(t, "error"))
  /\ UNCHANGED <<now, cron>>

\* A statement of the transaction throws: the catch block issues ROLLBACK
\* and the connection is released; the writes of the transaction are gone.
TxFail(p) ==
  LET t == tx.procs[p] IN
  /\ t.pc \notin {"start", "done"}
  /\ TxSet(p, TxEnd(t, "error"))
  /\ UNCHANGED <<pl_fixtures, games, game_players, picks, app_settings, now, cron>>

NextFail ==
  \/ NextRace
  \/ \E p \in Procs : TxFail(p)

SpecFail == InitRace /\ [][NextFail]_vars

\* ------------------------------------------------ the pick validator alone
\* A season with one round more than there are teams, so that a player can
\* have used every team and still face a round without a pick.
PickRounds == 1..(Len(Teams) + 1)

SeasonDB(rounds) ==
  [fixtures |-> [f \in rounds |->
       [gameweek |-> f, home_team_id |-> HomeOf(f), away_team_id |-> AwayOf(f),
        match_date |-> f, home_score |-> -1, away_score |-> -1, status |-> "scheduled"]],
   games |-> <<>>, players |-> <<>>, picks |-> <<>>,
   settings |-> [current_gameweek |-> 1, gameweek_override |-> 0,
                 deadline_override |-> FALSE]]

\* PUT /api/settings/:key
PutSettingRoute(db, key, value) ==
  [db EXCEPT !.settings = [db.settings EXCEPT ![key] = value]]

PutSetting(key, value) ==
  /\ SetDB(PutSettingRoute(DB, key, value))
  /\ UNCHANGED <<now, cron, tx>>

\* The game created by user 1, joined by user 2 and started; the other
\* users are not in it.
PicksSetup ==
  StartGameRoute(JoinGameRoute(CreateGameRoute(SeasonDB(PickRounds), RaceGame, 1, 1),
                               RaceGame, 2).db, RaceGame).db

InitPicks ==
  /\ pl_fixtures = PicksSetup.fixtures
  /\ games = PicksSetup.games
  /\ game_players = PicksSetup.players
  /\ picks = PicksSetup.picks
  /\ app_settings = PicksSetup.settings
  /\ now = 1
  /\ cron = CronIdle
  /\ tx = <<>>

NextPicks ==
  \/ \E g \in Games, u \in Users, team \in TeamIds \cup {""} : SubmitPick(g, u, team)
  \/ \E gw \in {0} \cup PickRounds : PutSetting("gameweek_override", gw)
  \/ \E b \in BOOLEAN : PutSetting("deadline_override", b)
  \/ Tick

SpecPicks == InitPicks /\ [][NextPicks]_vars

\* ------------------------------------------- the administrator's imports
\* The fixture of a team in a gameweek (fixtureResult.rows[0]), or NoRow.
TeamFixture(db, team, gw) ==
  LET fs == {f \in DOMAIN db.fixtures :
               /\ db.fixtures[f].gameweek = gw
               /\ team \in {db.fixtures[f].home_team_id, db.fixtures[f].away_team_id}}
  IN IF fs = {} THEN NoRow ELSE db.fixtures[CHOOSE f \in fs : TRUE]

\* The result POST /:id/import-pick stores with the pick.
ImportedResult(db, team, gw) ==
  IF TeamFixture(db, team, gw) # NoRow /\ TeamFixture(db, team, gw).status = "finished"
  THEN FixtureResult(TeamFixture(db, team, gw), team)
  ELSE "null"

\* POST /api/games/:id/import-pick for the player of user u
ImportPickRoute(db, g, u, gw, team) ==
  IF gw = 0 \/ team = ""
  THEN [db |-> db, res |-> "playerEmail, gameweek, and teamShortName are required"]
  ELSE IF PlayerId(g, u) \notin DOMAIN db.players
  THEN [db |-> db, res |-> "Player not found in this game"]
  ELSE IF team \notin TeamIds THEN [db |-> db, res |-> "Team not found"]
  ELSE [db |-> [db EXCEPT !.picks =
                  (PickId(g, u, gw) :> [pl_team_id |-> team,
                                        result |-> ImportedResult(db, team, gw)])
                  @@ [k \in DOMAIN db.picks \ {PickId(g, u, gw)} |-> db.picks[k]]],
        res |-> "Imported pick"]

ImportPick(g, u, gw, team) ==
  /\ SetDB(ImportPickRoute(DB, g, u, gw, team).db)
  /\ UNCHANGED <<now, cron, tx>>

\* What a later import may report for one match at time t: not played, or,
\* after kick-off, finished with any score, a stored score being revised.
RevisedFeedMatch(f, t) ==
  {[status |-> "scheduled", score |-> NoScore]}
  \cup (IF pl_fixtures[f].match_date < t
        THEN {[status |-> "finished", score |-> sc] : sc \in FeedScores}
        ELSE {})

RevisedFeeds(t) ==
  {feed \in [DOMAIN pl_fixtures -> UNION {RevisedFeedMatch(f, t) : f \in DOMAIN pl_fixtures}] :
     \A f \in DOMAIN pl_fixtures : feed[f] \in RevisedFeedMatch(f, t)}

\* The started game of users 1 and 2 in a season of MaxAdminRound gameweeks.
MaxAdminRound == 1
AdminRounds == 1..MaxAdminRound

AdminSetup ==
  StartGameRoute(JoinGameRoute(CreateGameRoute(SeasonDB(AdminRounds), RaceGame, 1, 1),
                               RaceGame, 2).db, RaceGame).db

InitAdmin ==
  /\ pl_fixtures = AdminSetup.fixtures
  /\ games = AdminSetup.games
  /\ game_players = AdminSetup.players
  /\ picks = AdminSetup.picks
  /\ app_settings = AdminSetup.settings
  /\ now = 1
  /\ cron = CronIdle
  /\ tx = <<>>

NextAdmin ==
  \/ \E g \in Games, u \in Users, team \in TeamIds : SubmitPick(g, u, team)
  \/ \E g \in Games, u \in Users, gw \in AdminRounds, team \in TeamIds : ImportPick(g, u, gw, team)
  \/ \E gw \in {0} \cup AdminRounds : PutSetting("gameweek_override", gw)
  \/ \E b \in BOOLEAN : PutSetting("deadline_override", b)
  \/ \E feed \in RevisedFeeds(now) : ImportFixtures(feed)
  \/ \E g \in Games, gw \in AdminRounds : ProcessResults(g, gw)
  \/ Tick

SpecAdmin == InitAdmin /\ [][NextAdmin]_vars

\* ------------------------------------------- the reads of the gameweek
\* value of GET /api/settings/current_gameweek (and of GET /api/settings)
GetCurrentGameweekRoute(db) ==
  IF getGameweekOverride(db) # 0 THEN getGameweekOverride(db)
  ELSE IF autoDetectGameweek(db) # 0 THEN autoDetectGameweek(db)
  ELSE db.settings.current_gameweek

\* The gameweeks runResultsCheck loops over, from gw up to currentGw.
ResultsCheckWindow(db) ==
  [gw |-> Max(1, getCurrentGameweek(db) - 2), currentGw |-> getCurrentGameweek(db)]

\* The started game of users 1 and 2, before the first import of the
\* season's fixtures and after it.
RoundsSetup(rounds) ==
  StartGameRoute(JoinGameRoute(CreateGameRoute(SeasonDB(rounds), RaceGame, 1, 1),
                               RaceGame, 2).db, RaceGame).db

InitRounds ==
  \E rounds \in {{}, Rounds} :
    /\ pl_fixtures = RoundsSetup(rounds).fixtures
    /\ games = RoundsSetup(rounds).games
    /\ game_players = RoundsSetup(rounds).players
    /\ picks = RoundsSetup(rounds).picks
    /\ app_settings = RoundsSetup(rounds).settings
    /\ now = 1
    /\ cron = CronIdle
    /\ tx = <<>>

NextRounds ==
  \/ \E gw \in {0} \cup Rounds : PutSetting("gameweek_override", gw)
  \/ \E gw \in Rounds : PutSetting("current_gameweek", gw)
  \/ \E feed \in ImportFeeds(now) : ImportFixtures(feed)
  \/ \E feed \in Feeds(now) : CronFetch(feed)
  \/ CronProcess
  \/ Tick

SpecRounds == InitRounds /\ [][NextRounds]_vars

\* ------------------------------------------------ the cron and failures
\* One iteration of processGameResults' loop when the transactions of the
\* games in bad fail: ROLLBACK, the error is recorded, the loop goes on.
ProcessGameFailing(db, g, gw, tr, bad) ==
  IF g \in bad THEN [db |-> db, res |-> "error"] ELSE ProcessGame(db, g, gw, tr)

\* Variant: the first failing game ends the loop.
RECURSIVE ProcessGamesAbortOnFail(_, _, _, _, _)
ProcessGamesAbortOnFail(db, gs, gw, tr, bad) ==
  IF gs = {} THEN db
  ELSE LET g == CHOOSE x \in gs : \A y \in gs : x <= y
       IN IF g \in bad THEN db
          ELSE ProcessGamesAbortOnFail(ProcessGame(db, g, gw, tr).db, gs \ {g}, gw, tr, bad)

RECURSIVE ProcessGamesFailing(_, _, _, _, _)
ProcessGamesFailing(db, gs, gw, tr, bad) ==
  IF gs = {} THEN db
  ELSE LET g == CHOOSE x \in gs : \A y \in gs : x <= y
       IN ProcessGamesFailing(ProcessGameFailing(db, g, gw, tr, bad).db, gs \ {g}, gw, tr, bad)

\* processGameResults(gameweek) when the transactions of the games in bad fail
processGameResultsFailing(db, gw, bad) ==
  IF UnfinishedCount(db, gw) > 0
  THEN [db |-> db, processed |-> FALSE]
  ELSE [db |-> ProcessGamesFailing(db, ActiveGames(db, gw), gw, TeamResults(db, gw), bad),
        processed |-> TRUE]

\* The games whose transaction failed in processGameResults(gw): the
\* entries of its summary with status 'error'.
ErrorGames(db, gw, bad) ==
  IF UnfinishedCount(db, gw) > 0 THEN {} ELSE bad \cap ActiveGames(db, gw)

\* The cron between two ticks, with the errors its last iteration logged.
CronResting(errors) == [gw |-> 0, currentGw |-> 0, errors |-> errors]

\* runResultsCheck up to its loop: the fetch, whose error (the feed cannot
\* be reached, or answers with an error) ends the tick in the catch, then
\* the window from the stored current gameweek.
ResultsCheckStart(db, feed, failed) ==
  IF failed THEN [db |-> db, cron |-> CronResting({})]
  ELSE [db |-> fetchLatestResults(db, feed),
        cron |-> [gw |-> ResultsCheckWindow(fetchLatestResults(db, feed)).gw,
                  currentGw |-> ResultsCheckWindow(fetchLatestResults(db, feed)).currentGw,
                  errors |-> {}]]

\* One iteration of runResultsCheck's loop at position c.
ResultsCheckStep(db, c, bad) ==
  [db |-> processGameResultsFailing(db, c.gw, bad).db,
   cron |-> IF c.gw < c.currentGw
            THEN [gw |-> c.gw + 1, currentGw |-> c.currentGw,
                  errors |-> ErrorGames(db, c.gw, bad)]
            ELSE CronResting(ErrorGames(db, c.gw, bad))]

\* What the feed newly reports as FINISHED at time t: matches that have
\* kicked off and are not stored as finished (the fetch skips the others).
CronFeeds(t) ==
  UNION {[S -> FeedScores] :
           S \in SUBSET {f \in DOMAIN pl_fixtures :
                           pl_fixtures[f].match_date < t /\ pl_fixtures[f].status # "finished"}}

CronStart(feed, failed) ==
  /\ cron.gw = 0
  /\ SetDB(ResultsCheckStart(DB, feed, failed).db)
  /\ cron' = ResultsCheckStart(DB, feed, failed).cron
  /\ UNCHANGED <<now, tx>>

CronStep(bad) ==
  /\ cron.gw # 0
  /\ SetDB(ResultsCheckStep(DB, cron, bad).db)
  /\ cron' = ResultsCheckStep(DB, cron, bad).cron
  /\ UNCHANGED <<now, tx>>

\* A season of MaxCronRound gameweeks with three games of users 1 and 2:
\* game 1 started from gameweek 1 with a pick of each player for it, game 2
\* started from gameweek 2, game 3 still open.
MaxCronRound == 4
CronRounds == 1..MaxCronRound
TwoPlayerGame(db, g, startGameweek) ==
  JoinGameRoute(CreateGameRoute(db, g, 1, startGameweek), g, 2).db
CronSetup ==
  LET d1 == StartGameRoute(TwoPlayerGame(SeasonDB(CronRounds), 1, 1), 1).db
      d2 == StartGameRoute(TwoPlayerGame(d1, 2, 2), 2).db
      d3 == TwoPlayerGame(d2, 3, 1)
      d4 == SubmitPickRoute(d3, 1, 1, "ARS", 1).db
  IN SubmitPickRoute(d4, 1, 2, "CHE", 1).db

InitCron ==
  /\ pl_fixtures = CronSetup.fixtures
  /\ games = CronSetup.games
  /\ game_players = CronSetup.players
  /\ picks = CronSetup.picks
  /\ app_settings = CronSetup.settings
  /\ now = 1
  /\ cron = CronResting({})
  /\ tx = <<>>

CronTick ==
  /\ now <= MaxCronRound
  /\ now' = now + 1
  /\ UNCHANGED <<pl_fixtures, games, game_players, picks, app_settings, cron, tx>>

NextCron ==
  \/ \E feed \in CronFeeds(now), failed \in BOOLEAN : CronStart(feed, failed)
  \/ \E bad \in SUBSET ActiveGames(DB, cron.gw) : CronStep(bad)
  \/ \E gw \in {0} \cup CronRounds : PutSetting("gameweek_override", gw)
  \/ CronTick

SpecCron == InitCron /\ [][NextCron]_vars

\* ------------------------------------- concurrent requests of POST /picks
\* The statements of POST /picks are separate autocommit queries on the
\* pool. A request of user RaceUser for RaceGame goes through: the checks
\* up to the fixture, the SELECT of the used teams, the SELECT of the
\* current pick with the decision, the upsert.
RaceUser == CHOOSE u \in Users : \A v \in Users : u <= v

\* The checks of POST /picks before the used-team check: the reason of the
\* rejection, or "" when they pass.
SubmitPickChecks(db, g, u, team, t) ==
  LET gw == PickGameweek(db)
  IN IF team = "" THEN "plTeamId is required"
     ELSE IF g \notin DOMAIN db.games THEN "Game not found"
     ELSE IF db.games[g].status # "active" THEN "Game is not active"
     ELSE IF gw < db.games[g].start_gameweek THEN "Game hasn't started yet"
     ELSE IF PlayerId(g, u) \notin DOMAIN db.players THEN "You are not in this game"
     ELSE IF db.players[PlayerId(g, u)].status # "alive"
          THEN "You have been eliminated from this game"
     ELSE IF ~isDeadlineOverridden(db) /\ Deadline(db, gw) # 0 /\ Deadline(db, gw) < t
          THEN "Deadline has passed for this gameweek"
     ELSE IF ~TeamHasFixture(db, team, gw)
          THEN "This team does not have a fixture this gameweek"
     ELSE ""

ReqIdle ==
  [pc |-> "start", team |-> "", gw |-> 0, used |-> {}, current |-> "", res |-> "none"]

ReqSet(p, rec) == tx' = [tx EXCEPT !.reqs[p] = rec]

ReqChecks(p, team) ==
  LET r == tx.reqs[p]
      why == SubmitPickChecks(DB, RaceGame, RaceUser, team, now)
  IN /\ r.pc = "start"
     /\ IF why # ""
        THEN ReqSet(p, [r EXCEPT !.pc = "done", !.team = team, !.res = why])
        ELSE ReqSet(p, [r EXCEPT !.pc = "used", !.team = team, !.gw = PickGameweek(DB)])
     /\ UNCHANGED <<pl_fixtures, games, game_players, picks, app_settings, now, cron>>

\* SELECT DISTINCT pl_team_id FROM picks WHERE game_player_id = $1 AND game_id = $2
ReqUsedTeams(p) ==
  LET r == tx.reqs[p]
  IN /\ r.pc = "used"
     /\ ReqSet(p, [r EXCEPT !.pc = "current", !.used = UsedTeamIds(DB, RaceGame, RaceUser)])
     /\ UNCHANGED <<pl_fixtures, games, game_players, picks, app_settings, now, cron>>

\* SELECT pl_team_id FROM picks WHERE ... AND gameweek = $3, then the decision
ReqCurrentPick(p) ==
  LET r == tx.reqs[p]
      k == PickId(RaceGame, RaceUser, r.gw)
      currentPickTeamId == IF k \in DOMAIN picks THEN picks[k].pl_team_id ELSE ""
      usedExcludingCurrent == r.used \ {currentPickTeamId}
  IN /\ r.pc = "current"
     /\ IF /\ r.team \in usedExcludingCurrent
           /\ Cardinality(usedExcludingCurrent) < Cardinality(TeamIds)
        THEN ReqSet(p, [r EXCEPT !.pc = "done", !.current = currentPickTeamId,
                                 !.res = "You have already used this team"])
        ELSE ReqSet(p, [r EXCEPT !.pc = "upsert", !.current = currentPickTeamId])
     /\ UNCHANGED <<pl_fixtures, games, game_players, picks, app_settings, now, cron>>

\* INSERT INTO picks ... ON CONFLICT ... DO UPDATE; last is the request whose
\* statement committed last.
ReqUpsert(p) ==
  LET r == tx.reqs[p]
  IN /\ r.pc = "upsert"
     /\ SetDB(UpsertPick(DB, RaceGame, RaceUser, r.gw, r.team))
     /\ tx' = [tx EXCEPT !.reqs[p] = [r EXCEPT !.pc = "done", !.res = "Pick submitted"],
                         !.last = p]
     /\ UNCHANGED <<now, cron>>

\* The started game, the user having no pick yet or a pick for gameweek 1.
InitSubmit ==
  \E first \in TeamIds \cup {""} :
    LET db == SubmitPickRoute(PicksSetup, RaceGame, RaceUser, first, 1).db
    IN /\ pl_fixtures = db.fixtures
       /\ games = db.games
       /\ game_players = db.players
       /\ picks = db.picks
       /\ app_settings = db.settings
       /\ now = 1
       /\ cron = CronIdle
       /\ tx = [reqs |-> [p \in Procs |-> ReqIdle], last |-> 0, pre |-> db]

NextSubmit ==
  \/ \E p \in Procs, team \in TeamIds : ReqChecks(p, team)
  \/ \E p \in Procs : ReqUsedTeams(p)
  \/ \E p \in Procs : ReqCurrentPick(p)
  \/ \E p \in Procs : ReqUpsert(p)
  \/ /\ \E gw \in {0, 1, 2} : PutSetting("gameweek_override", gw)
     /\ \A p \in Procs : tx.reqs[p].pc = "start"

SpecSubmit == InitSubmit /\ [][NextSubmit]_vars

\* ------------------------------------------------- the listings of picks
\* Variant: no listing takes a deadline as passed.
deadlinePassedNever(db, gw, t) == FALSE

\* deadlineOverride ? false : (deadline ? new Date(deadline) < now : false)
deadlinePassed(db, gw, t) ==
  IF isDeadlineOverridden(db) THEN FALSE
  ELSE Deadline(db, gw) # 0 /\ Deadline(db, gw) < t

\* GET /api/games/:id/picks/:gameweek at time t: the rows of the gameweek's
\* picks joined with their players, or none before the deadline.
GameweekPicksRoute(db, g, gw, t) ==
  IF ~deadlinePassed(db, gw, t)
  THEN [deadlinePassed |-> FALSE, picks |-> {}]
  ELSE [deadlinePassed |-> TRUE,
        picks |-> {[user |-> k[2], team |-> db.picks[k].pl_team_id,
                    result |-> db.picks[k].result, hidden |-> FALSE] :
                     k \in RoundPicks(db, g, gw)}]

\* currentGameweek of GET /:id/history: the override, else the stored
\* setting replaced by the detected gameweek when there is one.
HistoryGameweek(db) ==
  IF getGameweekOverride(db) # 0 THEN getGameweekOverride(db)
  ELSE LET currentGameweek == getCurrentGameweek(db)
       IN IF autoDetectGameweek(db) # 0 THEN autoDetectGameweek(db) ELSE currentGameweek

\* One entry of the history for the session's user (0 without a session).
HistoryEntry(db, k, requestingUser, passed) ==
  IF passed \/ k[2] = requestingUser
  THEN [user |-> k[2], team |-> db.picks[k].pl_team_id,
        result |-> db.picks[k].result, hidden |-> FALSE]
  ELSE [user |-> k[2], team |-> "", result |-> "null", hidden |-> TRUE]

\* GET /api/games/:id/history at time t
HistoryRoute(db, g, requestingUser, t) ==
  IF g \notin DOMAIN db.games
  THEN [res |-> "Game not found", history |-> <<>>, currentGameweek |-> 0]
  ELSE [res |-> "ok",
        history |->
          [gw \in {k[3] : k \in {x \in DOMAIN db.picks : x[1] = g}} |->
             [deadlinePassed |-> deadlinePassed(db, gw, t),
              picks |-> {HistoryEntry(db, k, requestingUser, deadlinePassed(db, gw, t)) :
                           k \in RoundPicks(db, g, gw)}]],
        currentGameweek |-> HistoryGameweek(db)]

\* ================================================================ claims
GamePlayers(g) == {p \in DOMAIN game_players : p[1] = g}
PlayersWithStatus(g, st) == {p \in GamePlayers(g) : game_players[p].status = st}

RaceDone == \A p \in Procs : tx.procs[p].pc = "done"

\* The gameweeks a caller may name: the season's, and one past its last.
CalledGameweeks == 1..(MaxRound + 1)

\* What one call of either entry point leaves in the store.
AfterRoute(db, g, gw) == ProcessResultsRoute(db, g, gw).db
AfterCron(db, gw) == processGameResults(db, gw).db

C2_RaceEndsAsSingleInvocation ==
  RaceDone =>
    /\ DB \in {ProcessResultsRoute(tx.pre, RaceGame, RaceGw).db,
               processGameResults(tx.pre, RaceGw).db}
    /\ ~(games[RaceGame].winner_player_id # NoRow /\ games[RaceGame].is_draw)

\* C3: a completed game has a winner, exactly one player with status winner
\* and no drawn flag, or it has the drawn flag, no winner and at least one
\* drawn player; never both, never neither.
C3_CompletedHasWinnerXorDraw ==
  \A g \in DOMAIN games :
    games[g].status = "completed" =>
      LET a == /\ games[g].winner_player_id # NoRow
               /\ Cardinality(PlayersWithStatus(g, "winner")) = 1
               /\ ~games[g].is_draw
          b == /\ games[g].is_draw
               /\ games[g].winner_player_id = NoRow
               /\ PlayersWithStatus(g, "drawn") # {}
      IN (a \/ b) /\ ~(a /\ b)

\* C4: when a pass ends a game as a draw, the players it sets to drawn are
\* exactly those who were alive when it started; a player who was already
\* eliminated is never set to drawn.
C4_OnlyThisPassIsDrawn ==
  [][\A p \in DOMAIN game_players :
       /\ game_players[p].status = "eliminated" => game_players'[p].status # "drawn"
       /\ (/\ game_players[p].status = "alive"
           /\ games'[p[1]].status = "completed"
           /\ games'[p[1]].is_draw) => game_players'[p].status = "drawn"]_vars

\* C5: a player's status only moves from alive to eliminated, winner or
\* drawn; eliminated, winner and drawn are kept by every operation.
C5_StatusIsMonotone ==
  [][\A p \in DOMAIN game_players :
       /\ game_players'[p].status # game_players[p].status
            => /\ game_players[p].status = "alive"
               /\ game_players'[p].status \in {"eliminated", "winner", "drawn"}
       /\ game_players[p].status \in {"eliminated", "winner", "drawn"}
            => game_players'[p].status = game_players[p].status]_vars

\* C6: when a pick of an active game and gameweek already carries a result,
\* both entry points report "already processed" and leave the store as it is.
C6_AlreadyProcessedIsReported ==
  \A g \in DOMAIN games, gw \in Rounds :
    (games[g].status = "active" /\ AlreadyProcessedCount(DB, g, gw) > 0) =>
      /\ ProcessResultsRoute(DB, g, gw) = [db |-> DB, res |-> "already processed"]
      /\ AfterCron(DB, gw) = DB

\* Stated on the stored rows: every fixture of the gameweek is finished; no
\* pick of the game and gameweek carries a result; the game is one the
\* route, or the cron, runs its pass for.
RoundFinished(gw) ==
  \A f \in DOMAIN pl_fixtures :
    pl_fixtures[f].gameweek = gw => pl_fixtures[f].status = "finished"
RoundUntouched(g, gw) ==
  \A k \in DOMAIN picks : (k[1] = g /\ k[3] = gw) => picks[k].result = "null"
RouteRuns(g, gw) == games[g].status = "active" /\ RoundFinished(gw)
CronRuns(g, gw) ==
  RouteRuns(g, gw) /\ games[g].start_gameweek <= gw /\ RoundUntouched(g, gw)

\* C7 (as stated): while a fixture of the gameweek is not finished, both
\* entry points report it as not ready and change nothing.
C7_UnfinishedRoundIsNotReady ==
  \A gw \in Rounds :
    ~RoundFinished(gw) =>
      /\ processGameResults(DB, gw) = [db |-> DB, processed |-> FALSE]
      /\ \A g \in DOMAIN games :
            ProcessResultsRoute(DB, g, gw) = [db |-> DB, res |-> "fixtures still not finished"]

\* C7 (amended): while a fixture of the gameweek is not finished, neither
\* entry point changes anything; the cron reports the gameweek as not ready,
\* and the route does for a game that is active (a game that is not active
\* is rejected as such first).
C7_UnfinishedRoundIsNotReadyForActive ==
  \A gw \in Rounds :
    ~RoundFinished(gw) =>
      /\ processGameResults(DB, gw) = [db |-> DB, processed |-> FALSE]
      /\ \A g \in Games : AfterRoute(DB, g, gw) = DB
      /\ \A g \in DOMAIN games :
            games[g].status = "active" =>
              ProcessResultsRoute(DB, g, gw).res = "fixtures still not finished"

\* An active game with picks for a gameweek whose fixture is in play or
\* postponed.
C7_Witness ==
  \E g \in DOMAIN games, f \in DOMAIN pl_fixtures :
    /\ games[g].status = "active"
    /\ pl_fixtures[f].status \in {"in_play", "postponed"}
    /\ \E k \in DOMAIN picks : k[1] = g /\ k[3] = pl_fixtures[f].gameweek

\* The elimination rule between the store before a pass and `d` after it.
EliminationRule(d, g, gw) ==
  \A p \in PlayersWithStatus(g, "alive") :
    LET k == PickId(p[1], p[2], gw)
    IN (d.players[p].status \notin {"alive", "winner"})
         <=> (k \notin DOMAIN d.picks \/ d.picks[k].result # "win")

\* C8: after a pass that ran, a player who was alive is out (neither alive
\* nor winner) exactly when their pick for the gameweek has a result other
\* than win or they have no pick for it.
C8_EliminationRule ==
  \A g \in DOMAIN games, gw \in CalledGameweeks :
    /\ RouteRuns(g, gw) => EliminationRule(AfterRoute(DB, g, gw), g, gw)
    /\ CronRuns(g, gw) => EliminationRule(AfterCron(DB, gw), g, gw)

\* A pass has put out one player by a pick that did not win and another for
\* want of a pick, and kept a player whose pick won.
C8_Witness ==
  \E g \in DOMAIN games, gw \in Rounds :
    \E p, q, r \in GamePlayers(g) :
      /\ game_players[p].status = "eliminated"
      /\ game_players[p].eliminated_gameweek = gw
      /\ PickId(p[1], p[2], gw) \in DOMAIN picks
      /\ picks[PickId(p[1], p[2], gw)].result \in {"loss", "draw"}
      /\ game_players[q].status = "eliminated"
      /\ game_players[q].eliminated_gameweek = gw
      /\ PickId(q[1], q[2], gw) \notin DOMAIN picks
      /\ game_players[r].status \in {"alive", "winner"}
      /\ PickId(r[1], r[2], gw) \in DOMAIN picks
      /\ picks[PickId(r[1], r[2], gw)].result = "win"

EliminationRecord(d, g, gw) ==
  \A p \in PlayersWithStatus(g, "alive") :
    LET k == PickId(p[1], p[2], gw)
    IN d.players[p].status \in {"eliminated", "drawn"} =>
         /\ d.players[p].eliminated_gameweek = gw
         /\ d.players[p].eliminated_pick_id = IF k \in DOMAIN picks THEN k ELSE NoRow

\* C10: a player a pass puts out is recorded with the gameweek of the pass
\* and with their own pick for it, or with no pick exactly when they had
\* none; an alive player has neither an eliminated gameweek nor a pick.
C10_EliminationRecord ==
  /\ \A p \in DOMAIN game_players :
        game_players[p].status = "alive" =>
          /\ game_players[p].eliminated_gameweek = 0
          /\ game_players[p].eliminated_pick_id = NoRow
  /\ \A g \in DOMAIN games, gw \in CalledGameweeks :
        /\ RouteRuns(g, gw) => EliminationRecord(AfterRoute(DB, g, gw), g, gw)
        /\ CronRuns(g, gw) => EliminationRecord(AfterCron(DB, gw), g, gw)

\* A pass has recorded one player with their pick and another with none,
\* and the third player, never eliminated, has no record.
C10_Witness ==
  \E g \in DOMAIN games, gw \in Rounds :
    \E p, q, r \in GamePlayers(g) :
      /\ game_players[p].status = "eliminated"
      /\ game_players[p].eliminated_gameweek = gw
      /\ game_players[p].eliminated_pick_id = PickId(p[1], p[2], gw)
      /\ PickId(p[1], p[2], gw) \in DOMAIN picks
      /\ game_players[q].status = "eliminated"
      /\ game_players[q].eliminated_gameweek = gw
      /\ game_players[q].eliminated_pick_id = NoRow
      /\ PickId(q[1], q[2], gw) \notin DOMAIN picks
      /\ game_players[r].status \in {"alive", "winner"}
      /\ game_players[r].eliminated_gameweek = 0

\* C11: a pass that fails leaves the store as it was: while no pass has
\* committed the store is the one before the calls; and the store never
\* holds a pass's eliminations or completion without the results of the
\* gameweek's picks, nor those results without the eliminations.
C11_RoundProcessingIsAtomic ==
  LET ks == {k \in DOMAIN picks : k[1] = RaceGame /\ k[3] = RaceGw}
      out(p) == \/ PickId(p[1], p[2], RaceGw) \notin DOMAIN picks
                \/ picks[PickId(p[1], p[2], RaceGw)].result # "win"
  IN /\ (\A p \in Procs : tx.procs[p].res # "processed") => DB = tx.pre
     /\ (game_players # tx.pre.players \/ games # tx.pre.games)
          => \A k \in ks : picks[k].result # "null"
     /\ picks # tx.pre.picks
          => \A p \in PlayersWithStatus(RaceGame, "alive") : ~out(p)

\* A pass failed after it had updated results and listed players to
\* eliminate, and the store is the one before the calls.
C11_Witness ==
  \E p \in Procs :
    /\ tx.procs[p].res = "error"
    /\ tx.procs[p].eliminated # {}
    /\ tx.pre.picks # <<>>
    /\ DB = tx.pre

\* A call of POST /picks made now, and what is stored about the caller.
Submit(g, u, team) == SubmitPickRoute(DB, g, u, team, now)
Accepted(r) == r.res = "Pick submitted"
PicksOf(g, u) == {k \in DOMAIN picks : k[1] = g /\ k[2] = u}
OtherRoundTeams(g, u, gw) == {picks[k].pl_team_id : k \in {x \in PicksOf(g, u) : x[3] # gw}}
CurrentTeam(g, u, gw) ==
  IF PickId(g, u, gw) \in DOMAIN picks THEN picks[PickId(g, u, gw)].pl_team_id ELSE ""
RoundDeadlinePassed(gw) ==
  \E f \in DOMAIN pl_fixtures : pl_fixtures[f].gameweek = gw /\ pl_fixtures[f].match_date < now
RoundHasTeam(gw, team) ==
  \E f \in DOMAIN pl_fixtures :
    /\ pl_fixtures[f].gameweek = gw
    /\ team \in {pl_fixtures[f].home_team_id, pl_fixtures[f].away_team_id}
MayPick(g, u, gw) ==
  /\ g \in DOMAIN games
  /\ games[g].status = "active"
  /\ games[g].start_gameweek <= gw
  /\ PlayerId(g, u) \in DOMAIN game_players
  /\ game_players[PlayerId(g, u)].status = "alive"
  /\ app_settings.deadline_override \/ ~RoundDeadlinePassed(gw)

\* C12: a pick of a team the player has picked in another gameweek of the
\* game is rejected unless the player's picks of the other gameweeks cover
\* every team; so no player holds two picks of one team while a team is
\* still unused by them.
C12_NoReuseBeforeExhaustion ==
  /\ \A g \in DOMAIN games, u \in Users, team \in TeamIds :
        LET gw == PickGameweek(DB)
        IN (team \in OtherRoundTeams(g, u, gw) /\ OtherRoundTeams(g, u, gw) # TeamIds)
             => (~Accepted(Submit(g, u, team)) /\ Submit(g, u, team).db = DB)
  /\ \A g \in DOMAIN games, u \in Users :
        (\E k1, k2 \in PicksOf(g, u) : k1 # k2 /\ picks[k1].pl_team_id = picks[k2].pl_team_id)
          => {picks[k].pl_team_id : k \in PicksOf(g, u)} = TeamIds

\* A player who may pick names a team that plays this gameweek and that
\* they picked in another gameweek, with a team still unused, and is told
\* the team is used.
C12_Witness ==
  \E g \in DOMAIN games, u \in Users, team \in TeamIds :
    LET gw == PickGameweek(DB)
    IN /\ MayPick(g, u, gw)
       /\ RoundHasTeam(gw, team)
       /\ team \in OtherRoundTeams(g, u, gw)
       /\ OtherRoundTeams(g, u, gw) # TeamIds
       /\ Submit(g, u, team).res = "You have already used this team"

\* C13: when every other precondition holds, a pick is accepted if the
\* player's picks of the other gameweeks cover every team (whether or not
\* the player has a pick for this gameweek), and if it names the team of the
\* player's current pick for this gameweek.
C13_ExhaustionAndRepickAccepted ==
  \A g \in DOMAIN games, u \in Users, team \in TeamIds :
    LET gw == PickGameweek(DB)
    IN (/\ MayPick(g, u, gw)
        /\ RoundHasTeam(gw, team)
        /\ \/ OtherRoundTeams(g, u, gw) = TeamIds
           \/ team = CurrentTeam(g, u, gw))
         => Accepted(Submit(g, u, team))

\* C14: an accepted pick leaves the pick of (game, player, gameweek) with
\* the submitted team, and leaves every other pick and every other table as
\* it was.
C14_UpsertFrame ==
  \A g \in DOMAIN games, u \in Users, team \in TeamIds :
    LET r == Submit(g, u, team)
        key == PickId(g, u, PickGameweek(DB))
    IN Accepted(r) =>
         /\ key \in DOMAIN r.db.picks
         /\ r.db.picks[key].pl_team_id = team
         /\ DOMAIN r.db.picks = DOMAIN picks \cup {key}
         /\ \A k \in DOMAIN picks \ {key} : r.db.picks[k] = picks[k]
         /\ r.db.fixtures = pl_fixtures
         /\ r.db.games = games
         /\ r.db.players = game_players
         /\ r.db.settings = app_settings

\* A player with a pick in another gameweek, in a game where another player
\* has picks, replaces their pick of this gameweek by another team.
C14_Witness ==
  \E g \in DOMAIN games, u \in Users, team \in TeamIds :
    LET gw == PickGameweek(DB)
    IN /\ Accepted(Submit(g, u, team))
       /\ CurrentTeam(g, u, gw) \notin {"", team}
       /\ OtherRoundTeams(g, u, gw) # {}
       /\ \E v \in Users \ {u} : PicksOf(g, v) # {}

\* C15: with the deadline override off, no call creates or changes a pick
\* of a gameweek whose earliest kick-off has passed, and a call for such a
\* gameweek is rejected; with the override on, the call answers as it would
\* before any kick-off.
C15_DeadlineEnforced ==
  \A g \in DOMAIN games, u \in Users, team \in TeamIds :
    LET r == Submit(g, u, team)
    IN /\ ~app_settings.deadline_override =>
            /\ \A k \in DOMAIN r.db.picks :
                  (k \notin DOMAIN picks \/ r.db.picks[k] # picks[k])
                    => ~RoundDeadlinePassed(k[3])
            /\ RoundDeadlinePassed(PickGameweek(DB)) => (~Accepted(r) /\ r.db = DB)
       /\ app_settings.deadline_override => r = SubmitPickRoute(DB, g, u, team, 0)

\* With the override off, a player who could otherwise pick a team of the
\* gameweek is told its deadline has passed.
C15_Witness ==
  \E g \in DOMAIN games, u \in Users, team \in TeamIds :
    LET gw == PickGameweek(DB)
    IN /\ ~app_settings.deadline_override
       /\ RoundDeadlinePassed(gw)
       /\ Accepted(SubmitPickRoute(DB, g, u, team, 0))
       /\ Submit(g, u, team).res = "Deadline has passed for this gameweek"

\* C16: a rejected pick, whatever the reason, leaves the store as it was.
C16_RejectionChangesNothing ==
  \A g \in Games, u \in Users, team \in TeamIds \cup {""} :
    ~Accepted(Submit(g, u, team)) => Submit(g, u, team).db = DB

\* In one state one player is told a team is used and another team has no
\* fixture, and another player is told they are eliminated.
C16_Witness ==
  \E g \in DOMAIN games, u, v \in Users, t1, t2 \in TeamIds :
    /\ Submit(g, u, t1).res = "You have already used this team"
    /\ Submit(g, u, t2).res = "This team does not have a fixture this gameweek"
    /\ Submit(g, v, t1).res = "You have been eliminated from this game"
    /\ picks # <<>>

\* The preconditions in the stated order, each with the reason of its
\* rejection, as a player's call fails them.
FailedPreconditions(g, u, team) ==
  LET gw == PickGameweek(DB)
  IN <<games[g].status # "active",
       gw < games[g].start_gameweek,
       game_players[PlayerId(g, u)].status # "alive",
       ~app_settings.deadline_override /\ RoundDeadlinePassed(gw),
       ~RoundHasTeam(gw, team),
       team \in OtherRoundTeams(g, u, gw) /\ team # CurrentTeam(g, u, gw)
         /\ OtherRoundTeams(g, u, gw) # TeamIds>>
RejectionReasons ==
  <<"Game is not active",
    "Game hasn't started yet",
    "You have been eliminated from this game",
    "Deadline has passed for this gameweek",
    "This team does not have a fixture this gameweek",
    "You have already used this team">>

\* C17: a player's call is answered with the reason of the first
\* precondition it fails, in the order game active, gameweek not before the
\* start, player alive, deadline not passed, team has a fixture, team not
\* used; it is accepted when it fails none; the six reasons are distinct.
C17_FirstFailingPreconditionReported ==
  /\ Cardinality({RejectionReasons[i] : i \in DOMAIN RejectionReasons}) = Len(RejectionReasons)
  /\ \A p \in DOMAIN game_players, team \in TeamIds :
        LET failed == FailedPreconditions(p[1], p[2], team)
            first == {i \in DOMAIN failed : failed[i] /\ \A j \in 1..(i - 1) : ~failed[j]}
            res == Submit(p[1], p[2], team).res
        IN /\ first = {} => res = "Pick submitted"
           /\ \A i \in first : res = RejectionReasons[i]

\* An eliminated player calls after the deadline with a team that has no
\* fixture, in a game that is still active, and is told they are eliminated.
C17_Witness ==
  \E p \in DOMAIN game_players, team \in TeamIds :
    LET failed == FailedPreconditions(p[1], p[2], team)
    IN /\ ~failed[1] /\ ~failed[2] /\ failed[3] /\ failed[4] /\ failed[5]
       /\ Submit(p[1], p[2], team).res = RejectionReasons[3]

\* C18: an accepted pick is stored with no result, also when it replaces a
\* pick of the gameweek that already carried one.
C18_AcceptedPickHasNoResult ==
  \A g \in Games, u \in Users, team \in TeamIds :
    Accepted(Submit(g, u, team)) =>
      Submit(g, u, team).db.picks[PickId(g, u, PickGameweek(DB))].result = "null"

\* The results of the picks in new are those they had in old, and a pick
\* that is not in old has none.
OutcomesKept(old, new) ==
  \A k \in DOMAIN new :
    new[k].result = IF k \in DOMAIN old THEN old[k].result ELSE "null"

\* C19: no operation other than the processing of a gameweek sets or changes
\* the result of a pick: not the submission of a pick, not the import of a
\* pick, not the import of the fixtures, not the fetch of the results.
C19_OnlyProcessingWritesResults ==
  /\ \A g \in Games, u \in Users, team \in TeamIds \cup {""} :
        OutcomesKept(picks, Submit(g, u, team).db.picks)
  /\ \A g \in Games, u \in Users, gw \in AdminRounds, team \in TeamIds :
        OutcomesKept(picks, ImportPickRoute(DB, g, u, gw, team).db.picks)
  /\ \A feed \in RevisedFeeds(now) : OutcomesKept(picks, importFixtures(DB, feed).picks)
  /\ \A feed \in Feeds(now) : OutcomesKept(picks, fetchLatestResults(DB, feed).picks)

\* C20: a result, once stored, is not changed to another value by a later
\* processing of any gameweek, by the administrator's route or by the cron,
\* also when an import has revised the fixture's score since.
C20_ResultIsWriteOnce ==
  \A k \in DOMAIN picks :
    picks[k].result # "null" =>
      \A gw \in AdminRounds :
        /\ \A g \in Games : ProcessResultsRoute(DB, g, gw).db.picks[k].result = picks[k].result
        /\ processGameResults(DB, gw).db.picks[k].result = picks[k].result

\* C21: the team of every stored pick plays, at home or away, a fixture of
\* the pick's gameweek.
C21_PickedTeamHasFixture ==
  \A k \in DOMAIN picks : RoundHasTeam(k[3], picks[k].pl_team_id)

\* What the two listings show of a gameweek to a requester (0: nobody signed
\* in): who has picked, and which team, "" where the team is withheld.
Requesters == Users \cup {0}
Shown(rows) == {[user |-> r.user, team |-> r.team] : r \in rows}
GameweekPicksShown(db, g, gw) == Shown(GameweekPicksRoute(db, g, gw, now).picks)
HistoryShown(db, g, gw, r) ==
  IF gw \in DOMAIN HistoryRoute(db, g, r, now).history
  THEN Shown(HistoryRoute(db, g, r, now).history[gw].picks)
  ELSE {}
StoredRoundPicks(g, gw) == {k \in DOMAIN picks : k[1] = g /\ k[3] = gw}
WithTeam(db, k, team) ==
  [db EXCEPT !.picks = [db.picks EXCEPT ![k] = [@ EXCEPT !.pl_team_id = team]]]

\* C22: before the deadline of a gameweek, with the bypass off, a listing of
\* the gameweek has one entry per player who has picked, naming the player,
\* with the team withheld unless the pick is the requester's own; and the
\* listing does not depend on the teams the other players have picked.
C22_HiddenBeforeDeadline ==
  \A g \in DOMAIN games, gw \in DOMAIN pl_fixtures, r \in Requesters :
    (~app_settings.deadline_override /\ ~RoundDeadlinePassed(gw)) =>
      LET expected == {[user |-> k[2],
                        team |-> IF k[2] = r THEN picks[k].pl_team_id ELSE ""] :
                         k \in StoredRoundPicks(g, gw)}
      IN /\ GameweekPicksShown(DB, g, gw) = expected
         /\ HistoryShown(DB, g, gw, r) = expected
         /\ \A k \in StoredRoundPicks(g, gw), team \in TeamIds :
               k[2] # r =>
                 /\ GameweekPicksRoute(WithTeam(DB, k, team), g, gw, now)
                      = GameweekPicksRoute(DB, g, gw, now)
                 /\ HistoryRoute(WithTeam(DB, k, team), g, r, now)
                      = HistoryRoute(DB, g, r, now)

\* C23: after the deadline of a gameweek, with the bypass off, a listing of
\* the gameweek shows every pick of it with its team, to every requester,
\* also to one who has not picked and to one who is not signed in.
C23_VisibleAfterDeadline ==
  \A g \in DOMAIN games, gw \in DOMAIN pl_fixtures, r \in Requesters :
    (~app_settings.deadline_override /\ RoundDeadlinePassed(gw)) =>
      LET expected == {[user |-> k[2], team |-> picks[k].pl_team_id] :
                         k \in StoredRoundPicks(g, gw)}
      IN /\ GameweekPicksShown(DB, g, gw) = expected
         /\ HistoryShown(DB, g, gw, r) = expected

\* The deadline of gameweek 1 has passed with the bypass off and both
\* players have a pick of it, which a listing shows to the user who is not
\* in the game.
C23_Witness ==
  /\ ~app_settings.deadline_override
  /\ RoundDeadlinePassed(1)
  /\ \E g \in DOMAIN games :
        /\ {k[2] : k \in StoredRoundPicks(g, 1)} = {1, 2}
        /\ \E r \in Users \ {1, 2} :
              {e.team : e \in HistoryShown(DB, g, 1, r)} \subseteq TeamIds

\* C24: with the deadline bypass on, a listing of a gameweek shows every
\* pick of it with its team to every requester, before and after the
\* gameweek's deadline.
C24_VisibleUnderBypass ==
  \A g \in DOMAIN games, gw \in DOMAIN pl_fixtures, r \in Requesters :
    app_settings.deadline_override =>
      LET expected == {[user |-> k[2], team |-> picks[k].pl_team_id] :
                         k \in StoredRoundPicks(g, gw)}
      IN /\ GameweekPicksShown(DB, g, gw) = expected
         /\ HistoryShown(DB, g, gw, r) = expected

\* The active gameweek as the stored rows give it: the override if set; else
\* the smallest gameweek with a fixture that is not finished; else the
\* largest gameweek of the season if it has fixtures; else the stored
\* current gameweek.
StoredGameweeks(unfinishedOnly) ==
  {pl_fixtures[f].gameweek :
     f \in {x \in DOMAIN pl_fixtures : ~unfinishedOnly \/ pl_fixtures[x].status # "finished"}}
ActiveGameweek ==
  IF app_settings.gameweek_override # 0 THEN app_settings.gameweek_override
  ELSE IF StoredGameweeks(TRUE) # {}
       THEN CHOOSE m \in StoredGameweeks(TRUE) : \A o \in StoredGameweeks(TRUE) : m <= o
  ELSE IF StoredGameweeks(FALSE) # {}
       THEN CHOOSE m \in StoredGameweeks(FALSE) : \A o \in StoredGameweeks(FALSE) : m >= o
  ELSE app_settings.current_gameweek

\* C25: the gameweek POST /picks writes to is the active gameweek: the
\* override if set, else the earliest gameweek with an unfinished fixture,
\* else the last gameweek of a season whose fixtures are all finished, else
\* the stored current gameweek.
C25_PickGameweekIsActiveGameweek ==
  PickGameweek(DB) = ActiveGameweek

\* No override is set, every fixture of the season is finished, the stored
\* current gameweek is another one, and a pick goes to the last gameweek.
C25_Witness ==
  /\ app_settings.gameweek_override = 0
  /\ pl_fixtures # <<>>
  /\ StoredGameweeks(TRUE) = {}
  /\ app_settings.current_gameweek # MaxRound
  /\ PickGameweek(DB) = MaxRound

\* C26: the gameweek POST /picks writes to, the current gameweek the history
\* and the settings report, and the last gameweek of the window the cron
\* processes after its fetch are the same, computed from the same rows.
C26_OneActiveGameweek ==
  /\ \A g \in DOMAIN games, r \in Users :
        HistoryRoute(DB, g, r, now).currentGameweek = PickGameweek(DB)
  /\ GetCurrentGameweekRoute(DB) = PickGameweek(DB)
  /\ \A feed \in Feeds(now) :
        ResultsCheckWindow(fetchLatestResults(DB, feed)).currentGw
          = PickGameweek(fetchLatestResults(DB, feed))

\* The rows of one game: the game, its players, its picks.
GameRows(db, g) ==
  [game |-> db.games[g],
   players |-> [p \in {x \in DOMAIN db.players : x[1] = g} |-> db.players[p]],
   picks |-> [k \in {x \in DOMAIN db.picks : x[1] = g} |-> db.picks[k]]]

\* C27: a tick of the cron goes through the gameweeks from
\* max(1, active gameweek - 2) up to the active gameweek, one after the
\* other in ascending order, and in each it runs the pass for every active
\* game that has started by that gameweek and for no other game: a game that
\* is open or completed, or starts later, keeps its rows.
C27_CronWindow ==
  /\ [][(cron.gw = 0 /\ cron'.gw # 0) =>
          /\ cron'.gw = Max(1, ActiveGameweek' - 2)
          /\ cron'.currentGw = ActiveGameweek']_vars
  /\ [][(cron.gw # 0 /\ cron' # cron) =>
          IF cron.gw < cron.currentGw
          THEN cron'.gw = cron.gw + 1 /\ cron'.currentGw = cron.currentGw
          ELSE cron'.gw = 0]_vars
  /\ [](cron.gw # 0 =>
          \A g \in DOMAIN games :
            GameRows(ResultsCheckStep(DB, cron, {}).db, g)
              = IF CronRuns(g, cron.gw) THEN GameRows(AfterRoute(DB, g, cron.gw), g)
                ELSE GameRows(DB, g))

C29_FetchFailureIsSkipped ==
  \A feed \in CronFeeds(now) :
    /\ ResultsCheckStart(DB, feed, TRUE).cron.gw >= 1
    /\ ResultsCheckStart(DB, feed, TRUE).cron.currentGw
         >= ResultsCheckStart(DB, feed, TRUE).cron.gw

\* C30: when two concurrent requests of one player for one gameweek have
\* both been accepted, the player has one pick for that gameweek, with the
\* team of the request that wrote last, and every other pick is as it was
\* before the requests: none was added for another gameweek.
C30_LastWriteWins ==
  (/\ \A p \in Procs : tx.reqs[p].pc = "done" /\ tx.reqs[p].res = "Pick submitted"
   /\ \A p, q \in Procs : tx.reqs[p].gw = tx.reqs[q].gw)
  => LET key == PickId(RaceGame, RaceUser, tx.reqs[tx.last].gw)
     IN /\ key \in DOMAIN picks
        /\ picks[key].pl_team_id = tx.reqs[tx.last].team
        /\ Cardinality({k \in DOMAIN picks : k[1] = key[1] /\ k[2] = key[2] /\ k[3] = key[3]}) = 1
        /\ \A k \in DOMAIN picks \ {key} : k \in DOMAIN tx.pre.picks /\ picks[k] = tx.pre.picks[k]
        /\ \A k \in DOMAIN tx.pre.picks : k \in DOMAIN picks

\* Both requests found no pick for the gameweek, both were accepted with
\* different teams, and the pick has the team of the one that wrote last.
C30_Witness ==
  /\ \A p \in Procs :
        /\ tx.reqs[p].pc = "done"
        /\ tx.reqs[p].res = "Pick submitted"
        /\ tx.reqs[p].current = ""
        /\ tx.reqs[p].gw = 2
  /\ tx.reqs[1].team # tx.reqs[2].team
  /\ tx.last = 1
  /\ picks[PickId(RaceGame, RaceUser, 2)].pl_team_id = tx.reqs[1].team

StatusRank(st) == CASE st = "open" -> 1 [] st = "active" -> 2 [] st = "completed" -> 3

\* C31: the status of a game only moves forward, open to active to
\* completed; a step from open is the start of the game, to active, taken
\* with at least 2 players and changing nothing else; a step from active is
\* a pass of the results processing, to completed; and the start is
\* accepted exactly for an open game with at least 2 players.
C31_StatusMovesForward ==
  /\ [][\A g \in DOMAIN games \cap DOMAIN games' :
          /\ StatusRank(games'[g].status) >= StatusRank(games[g].status)
          /\ (games[g].status = "open" /\ games'[g].status # "open") =>
                /\ Cardinality(GamePlayers(g)) >= 2
                /\ games' = [games EXCEPT ![g] = [@ EXCEPT !.status = "active"]]
                /\ UNCHANGED <<pl_fixtures, game_players, picks, app_settings>>
          /\ (games[g].status = "active" /\ games'[g].status # "active") =>
                /\ games'[g].status = "completed"
                /\ \E gw \in CalledGameweeks :
                      RouteRuns(g, gw) /\ DB' \in {AfterRoute(DB, g, gw), AfterCron(DB, gw)}]_vars
  /\ [](\A g \in Games :
          (StartGameRoute(DB, g).res = "Game started!")
            <=> (/\ g \in DOMAIN games
                 /\ games[g].status = "open"
                 /\ Cardinality(GamePlayers(g)) >= 2))

\* A game that was started with 3 players has been completed.
C31_Witness ==
  \E g \in DOMAIN games :
    /\ games[g].status = "completed"
    /\ Cardinality(GamePlayers(g)) = 3

\* ================================================== games and invite codes
\* The games of this part carry the columns admin_email and invite_code.
InviteGames == {1, 2}
InviteCodes == {"AAAAAAAA", "BBBBBBBB"}
Undefined == "undefined"

\* req.session: the email and role of the signed-in user; email 0 without one.
NoSession == [email |-> 0, role |-> ""]
Sessions == {NoSession} \cup [email : Users, role : {"user", "admin"}]

\* POST /api/games by user u, the generated code being inviteCode: the
\* UNIQUE constraint on invite_code rejects a code already stored.
CreateGameInviteRoute(db, g, u, startGameweek, inviteCode) ==
  IF \E h \in DOMAIN db.games : db.games[h].invite_code = inviteCode
  THEN [db |-> db, res |-> "Invite code conflict, please try again"]
  ELSE LET created == CreateGameRoute(db, g, u, startGameweek)
       IN [db |-> [created EXCEPT
                     !.games[g] = [admin_email |-> u, invite_code |-> inviteCode] @@ @],
           res |-> "Game created!"]

\* POST /api/games/join: the game is the one holding the invite code.
JoinInviteRoute(db, inviteCode, u) ==
  IF \A h \in DOMAIN db.games : db.games[h].invite_code # inviteCode
  THEN [db |-> db, res |-> "Invalid invite code"]
  ELSE JoinGameRoute(db, CHOOSE h \in DOMAIN db.games :
                           db.games[h].invite_code = inviteCode, u)

\* The players of game g with their status, as the detail and the
\* standings list them.
PlayerRows(db, g) ==
  {[user |-> p[2], status |-> db.players[p].status,
    eliminated_gameweek |-> db.players[p].eliminated_gameweek,
    picks_made |-> Cardinality({k \in DOMAIN db.picks : k[1] = g /\ k[2] = p[2]})] :
     p \in {q \in DOMAIN db.players : q[1] = g}}

\* GET /api/games: the listed columns of every game, with the membership of
\* the session's user when there is one.
ListGamesRoute(db, session) ==
  [g \in DOMAIN db.games |->
     LET members == {q \in DOMAIN db.players : q[1] = g}
         row == [game_id |-> g, admin_email |-> db.games[g].admin_email,
                 start_gameweek |-> db.games[g].start_gameweek,
                 status |-> db.games[g].status, is_draw |-> db.games[g].is_draw,
                 player_count |-> Cardinality(members),
                 alive_count |-> Cardinality({q \in members : db.players[q].status = "alive"})]
     IN IF session.email # 0
        THEN [user_status |-> IF PlayerId(g, session.email) \in DOMAIN db.players
                              THEN db.players[PlayerId(g, session.email)].status
                              ELSE "null",
              is_member |-> PlayerId(g, session.email) \in DOMAIN db.players] @@ row
        ELSE row]

\* Variant: the detail returns the stored row to every caller.
GameDetailRouteWholeRow(db, g, session) ==
  IF g \notin DOMAIN db.games
  THEN [res |-> "Game not found", game |-> NoRow, players |-> {}]
  ELSE [res |-> "ok", game |-> db.games[g], players |-> PlayerRows(db, g)]

\* GET /api/games/:id
GameDetailRoute(db, g, session) ==
  IF g \notin DOMAIN db.games
  THEN [res |-> "Game not found", game |-> NoRow, players |-> {}]
  ELSE LET game == db.games[g]
           isAdmin == session.email = game.admin_email \/ session.role = "admin"
       IN [res |-> "ok",
           game |-> [game EXCEPT !.invite_code = IF isAdmin THEN game.invite_code
                                                 ELSE Undefined],
           players |-> PlayerRows(db, g)]

\* GET /api/games/:id/standings
StandingsRoute(db, g) ==
  IF g \notin DOMAIN db.games
  THEN [res |-> "Game not found", game |-> NoRow, standings |-> {}]
  ELSE [res |-> "ok", game |-> db.games[g],
        standings |->
          {[teams_used |-> Cardinality({db.picks[k].pl_team_id :
                              k \in {x \in DOMAIN db.picks : x[1] = g /\ x[2] = r.user}})] @@ r :
             r \in PlayerRows(db, g)}]

CreateGameInvite(u, startGameweek, inviteCode) ==
  /\ \E g \in InviteGames \ DOMAIN games :
        /\ \A h \in InviteGames \ DOMAIN games : g <= h
        /\ SetDB(CreateGameInviteRoute(DB, g, u, startGameweek, inviteCode).db)
  /\ UNCHANGED <<now, cron, tx>>

JoinInvite(inviteCode, u) ==
  /\ SetDB(JoinInviteRoute(DB, inviteCode, u).db)
  /\ UNCHANGED <<now, cron, tx>>

NextInvite ==
  \/ \E u \in Users, code \in InviteCodes : CreateGameInvite(u, 1, code)
  \/ \E code \in InviteCodes, u \in Users : JoinInvite(code, u)
  \/ \E g \in InviteGames : StartGame(g)
  \/ \E u \in Users, team \in TeamIds : SubmitPick(1, u, team)
  \/ Tick

SpecInvite == Init /\ [][NextInvite]_vars

\* The session is the game's administrator or a site admin (stored columns).
MaySeeInvite(g, session) ==
  session.email = games[g].admin_email \/ session.role = "admin"

\* C32: the detail of a game carries the game's invite code when the
\* session is the game's administrator or a site admin, and no invite code
\* for every other session: other members, non-members and callers without
\* a session.
C32_InviteOnlyForAdmins ==
  \A g \in DOMAIN games : \A session \in Sessions :
    GameDetailRoute(DB, g, session).game.invite_code =
      IF MaySeeInvite(g, session) THEN games[g].invite_code ELSE Undefined

\* A game with a member who is not its administrator and a user who is not
\* a member: its detail carries the code for the administrator and none for
\* the member, the non-member and the caller without a session.
C32_Witness ==
  \E g \in DOMAIN games : \E m, o \in Users :
    /\ PlayerId(g, m) \in DOMAIN game_players /\ m # games[g].admin_email
    /\ PlayerId(g, o) \notin DOMAIN game_players
    /\ GameDetailRoute(DB, g, [email |-> games[g].admin_email, role |-> "user"]).game.invite_code
         \in InviteCodes
    /\ GameDetailRoute(DB, g, [email |-> m, role |-> "user"]).game.invite_code = Undefined
    /\ GameDetailRoute(DB, g, [email |-> o, role |-> "user"]).game.invite_code = Undefined
    /\ GameDetailRoute(DB, g, NoSession).game.invite_code = Undefined

\* The database with another invite code stored for game g, all else equal.
WithInviteCode(db, g, inviteCode) ==
  [db EXCEPT !.games[g].invite_code = inviteCode]

\* C40: for a session that is neither the game's administrator nor a site
\* admin, the list of games, the detail, the standings and the history of
\* the game answer the same in any two states that differ only in the
\* game's invite code.
C40_ReadsHideInvite ==
  \A g \in DOMAIN games : \A session \in Sessions : \A inviteCode \in InviteCodes :
    ~MaySeeInvite(g, session) =>
      LET other == WithInviteCode(DB, g, inviteCode)
      IN /\ ListGamesRoute(other, session) = ListGamesRoute(DB, session)
         /\ GameDetailRoute(other, g, session) = GameDetailRoute(DB, g, session)
         /\ StandingsRoute(other, g) = StandingsRoute(DB, g)
         /\ HistoryRoute(other, g, session.email, now) = HistoryRoute(DB, g, session.email, now)

\* ========================================================== result fetches
\* POST /api/fixtures/update-results: the matches the feed reports as
\* FINISHED are written to the fixtures that are not finished, then
\* current_gameweek is set to the detected gameweek.
UpdateResultsRoute(db, feed) ==
  LET fx == [f \in DOMAIN db.fixtures |->
               IF f \in DOMAIN feed /\ db.fixtures[f].status # "finished"
               THEN [db.fixtures[f] EXCEPT !.home_score = feed[f][1],
                                           !.away_score = feed[f][2],
                                           !.status = "finished"]
               ELSE db.fixtures[f]]
      db1 == [db EXCEPT !.fixtures = fx]
      detectedGw == autoDetectGameweek(db1)
  IN IF detectedGw # 0 THEN updateSetting(db1, "current_gameweek", detectedGw) ELSE db1

UpdateResults(feed) ==
  /\ SetDB(UpdateResultsRoute(DB, feed))
  /\ UNCHANGED <<now, cron, tx>>

\* The season's fixtures under the two fetches, the fixture import, the
\* results processing of the cron and the clock, with games being created.
NextResults ==
  \/ \E feed \in Feeds(now) : UpdateResults(feed)
  \/ \E feed \in Feeds(now) : CronFetch(feed)
  \/ CronProcess
  \/ \E feed \in ImportFeeds(now) : ImportFixtures(feed)
  \/ \E u \in Users, sg \in Rounds : CreateGame(u, sg)
  \/ \E g \in Games, u \in Users : JoinGame(g, u)
  \/ \E g \in Games : StartGame(g)
  \/ Tick

SpecResults == Init /\ [][NextResults]_vars

\* C39: a result fetch, by the cron or by the update-results route, with
\* any feed leaves every finished fixture as it is stored, status and both
\* scores, and changes another fixture only to finished.
C39_FetchKeepsFinished ==
  \A feed \in Feeds(now) :
    \A after \in {fetchLatestResults(DB, feed), UpdateResultsRoute(DB, feed)} :
      /\ DOMAIN after.fixtures = DOMAIN pl_fixtures
      /\ \A f \in DOMAIN pl_fixtures :
           IF pl_fixtures[f].status = "finished"
           THEN after.fixtures[f] = pl_fixtures[f]
           ELSE after.fixtures[f] = pl_fixtures[f] \/ after.fixtures[f].status = "finished"

\* A fixture is stored as finished and the feed reports another score for
\* it together with the result of a fixture that is not finished.
C39_Witness ==
  \E f, h \in DOMAIN pl_fixtures : \E feed \in Feeds(now) :
    /\ pl_fixtures[f].status = "finished"
    /\ pl_fixtures[h].status # "finished"
    /\ {f, h} \subseteq DOMAIN feed
    /\ feed[f] # <<pl_fixtures[f].home_score, pl_fixtures[f].away_score>>
    /\ fetchLatestResults(DB, feed).fixtures[h].status = "finished"

\* The cron's pass for gameweek gw selects game g and skips it as already
\* processed.
CronSkips(g, gw) ==
  /\ UnfinishedCount(DB, gw) = 0
  /\ g \in ActiveGames(DB, gw)
  /\ ProcessGame(DB, g, gw, TeamResults(DB, gw)).res = "already processed"

\* C34: whenever the cron skips a gameweek of a game as already processed,
\* the gameweek has been processed for the game: every player of the game
\* whose pick for it did not win, or who has no pick for it, is out.  No
\* other operation, the import of a pick included, brings about a skip.
C34_SkipMeansProcessed ==
  \A g \in DOMAIN games, gw \in AdminRounds :
    CronSkips(g, gw) =>
      \A p \in GamePlayers(g) :
        LET k == PickId(p[1], p[2], gw)
        IN (k \notin DOMAIN picks \/ picks[k].result # "win") =>
             game_players[p].status # "alive"

\* The season has no fixture in gameweek gw.
RoundEmpty(gw) == \A f \in DOMAIN pl_fixtures : pl_fixtures[f].gameweek # gw

\* C35: processing a gameweek in which the season has no fixture, through
\* the route for any game or through the cron, changes no player's status
\* and completes no game.
C35_EmptyRoundEliminatesNobody ==
  \A gw \in CalledGameweeks :
    RoundEmpty(gw) =>
      /\ AfterCron(DB, gw).players = game_players
      /\ AfterCron(DB, gw).games = games
      /\ \A g \in DOMAIN games :
           /\ AfterRoute(DB, g, gw).players = game_players
           /\ AfterRoute(DB, g, gw).games = games

\* ------------------------------------------------- one whole cron tick
\* The loop of runResultsCheck: processGameResults(gw) for gw up to currentGw.
RECURSIVE ResultsCheckLoop(_, _, _)
ResultsCheckLoop(db, gw, currentGw) ==
  IF gw > currentGw THEN db
  ELSE ResultsCheckLoop(processGameResults(db, gw).db, gw + 1, currentGw)

\* runResultsCheck with the feed answering: the fetch, then the loop over
\* the window of the stored current gameweek.
runResultsCheck(db, feed) ==
  LET fetched == fetchLatestResults(db, feed)
  IN ResultsCheckLoop(fetched, ResultsCheckWindow(fetched).gw,
                      ResultsCheckWindow(fetched).currentGw)

\* Player p of the stored state d is out by gameweek gw for want of a pick.
OutForNoPick(d, p, gw) ==
  /\ d.players[p].status \in {"eliminated", "drawn"}
  /\ d.players[p].eliminated_gameweek = gw
  /\ d.players[p].eliminated_pick_id = NoRow

\* C36: when a game is started after the deadline of a gameweek from its
\* start gameweek on has passed, so that its players could not pick for
\* that gameweek, a later tick of the cron puts no player of the game out
\* by that gameweek for having no pick.
C36_NoEliminationWithoutOpportunity ==
  \A g \in DOMAIN games, gw \in Rounds :
    ( /\ games[g].status = "open"
      /\ Cardinality(GamePlayers(g)) >= 2
      /\ games[g].start_gameweek <= gw
      /\ RoundDeadlinePassed(gw) ) =>
        \A feed \in Feeds(now) :
          \A p \in GamePlayers(g) :
            ~OutForNoPick(runResultsCheck(StartGameRoute(DB, g).db, feed), p, gw)

\* ----------------------------- concurrent passes for two gameweeks
\* A state before the race: the game of 3 players started, their picks for
\* the first gameweek submitted and its fixture fetched as finished, their
\* picks for the second gameweek submitted and its fixture fetched as
\* finished, no pass having run.
RECURSIVE PickedAt(_, _, _, _)
PickedAt(db, n, choice, t) ==
  IF n = 0 THEN db
  ELSE SubmitPickRoute(PickedAt(db, n - 1, choice, t), RaceGame, n, choice[n], t).db

RaceRoundsSetup(choice1, score1, choice2, score2) ==
  LET started == StartGameRoute(Joined(CreateGameRoute(InitialDB, RaceGame, 1, 1),
                                       MaxPlayers), RaceGame).db
      first == fetchLatestResults(PickedAt(started, MaxPlayers, choice1, 1), (1 :> score1))
  IN fetchLatestResults(PickedAt(first, MaxPlayers, choice2, 2), (2 :> score2))

\* One pass for each of the two gameweeks, by the route or by the cron.
InitRaceRounds ==
  /\ \E choice1 \in [Users -> {HomeOf(1), AwayOf(1)}], score1 \in FeedScores :
       \E choice2 \in [Users -> {HomeOf(2), AwayOf(2)}], score2 \in FeedScores :
         LET db == RaceRoundsSetup(choice1, score1, choice2, score2)
         IN /\ pl_fixtures = db.fixtures
            /\ games = db.games
            /\ game_players = db.players
            /\ picks = db.picks
            /\ app_settings = db.settings
            /\ \E ka \in Kinds, kb \in Kinds :
                 tx = [pre |-> db,
                       procs |-> (1 :> [TxIdle(ka) EXCEPT !.gw = 1])
                                 @@ (2 :> [TxIdle(kb) EXCEPT !.gw = 2])]
  /\ now = 3
  /\ cron = CronIdle

SpecRaceRounds == InitRaceRounds /\ [][NextRace]_vars

\* C37: an active game has at least 2 alive players, and a game that is
\* open or active has no player who is winner or drawn.
C37_ActiveGameHasTwoAlive ==
  \A g \in DOMAIN games :
    /\ games[g].status = "active" => Cardinality(PlayersWithStatus(g, "alive")) >= 2
    /\ games[g].status \in {"open", "active"} =>
         PlayersWithStatus(g, "winner") \cup PlayersWithStatus(g, "drawn") = {}

\* Every pick of gameweek gw of game g in the stored state d carries a
\* result, and it is the result of the pick's own team in the gameweek.
RoundResultsStand(d, g, gw) ==
  \A k \in RoundPicks(d, g, gw) :
    /\ d.picks[k].result # "null"
    /\ d.picks[k].result = PickResult(TeamResults(d, gw), d.picks[k].pl_team_id)

\* C38: once a gameweek has been processed for a game, by the route or by
\* the cron, every pick of the game for that gameweek carries a result, the
\* one of its own team, also after a later submission of a pick (whatever
\* the gameweek override and the deadline override) or import of a pick.
C38_ProcessedRoundKeepsResults ==
  \A g \in DOMAIN games, gw \in AdminRounds :
    \A d \in (IF RouteRuns(g, gw) THEN {AfterRoute(DB, g, gw)} ELSE {})
             \cup (IF CronRuns(g, gw) THEN {AfterCron(DB, gw)} ELSE {}) :
      /\ RoundResultsStand(d, g, gw)
      /\ \A u \in Users, team \in TeamIds :
           /\ RoundResultsStand(SubmitPickRoute(d, g, u, team, now).db, g, gw)
           /\ RoundResultsStand(ImportPickRoute(d, g, u, gw, team).db, g, gw)

\* ------------------------------------------- the cron under fair ticks
\* startResultsCron runs runResultsCheck at startup and every 30 minutes:
\* a tick that can start does start, and its loop goes on to its end.  No
\* transaction fails; the clock may advance by any number of gameweeks
\* between two ticks.
\* The feed answers in full: it reports every match that has kicked off.
HealFeeds(t) ==
  {feed \in CronFeeds(t) :
     \A f \in DOMAIN pl_fixtures :
       (pl_fixtures[f].match_date < t /\ pl_fixtures[f].status # "finished")
         => f \in DOMAIN feed}

HealStart == \E feed \in HealFeeds(now) : CronStart(feed, FALSE)

NextHeal ==
  \/ HealStart
  \/ CronStep({})
  \/ CronTick

\* The steps of the cron seen on its position alone: a tick starts (the
\* position goes to the start of the window the fetch leaves), the loop
\* goes on (the position goes to the next gameweek, or to rest after the
\* last).  Among the steps of NextHeal these are the steps HealStart and
\* CronStep, and they are enabled in the same states.
TickStarts ==
  /\ cron.gw = 0
  /\ \E feed \in HealFeeds(now) : cron' = ResultsCheckStart(DB, feed, FALSE).cron

TickGoesOn ==
  /\ cron.gw # 0
  /\ cron' = IF cron.gw < cron.currentGw
             THEN [gw |-> cron.gw + 1, currentGw |-> cron.currentGw, errors |-> {}]
             ELSE CronResting({})

SpecHeal ==
  InitCron /\ [][NextHeal]_vars /\ WF_cron(TickStarts) /\ WF_cron(TickGoesOn)

HealGames == DOMAIN CronSetup.games

\* Gameweek gw has been processed for game g: its picks carry results and
\* every player without a winning pick for it is out.
RoundProcessed(g, gw) ==
  /\ \A k \in DOMAIN picks : (k[1] = g /\ k[3] = gw) => picks[k].result # "null"
  /\ \A p \in GamePlayers(g) :
       (\/ PickId(p[1], p[2], gw) \notin DOMAIN picks
        \/ picks[PickId(p[1], p[2], gw)].result # "win") => game_players[p].status # "alive"

\* C33: under fair ticks of the cron, with the feed answering and no
\* transaction failing, a gameweek from the start gameweek of an active
\* game on, whose fixtures are all finished and which is not processed for
\* the game, is eventually processed for it, whatever the number of
\* gameweeks the clock and the current gameweek have advanced by.
C33_PendingRoundIsProcessed ==
  \A g \in HealGames : \A gw \in CronRounds :
    CronRuns(g, gw) ~> RoundProcessed(g, gw)

====
